---- MODULE Spec2Model ----
(***************************************************************************)
(* tokenify: CommentStripper.strip (src/src/comment_stripper.py).          *)
(*                                                                         *)
(* Text is a sequence of one-character strings; bytes are the same, with   *)
(* the byte 0x80 written "<80>".  Positions inside a line are 0-based as   *)
(* in Python, so token columns are the columns the tokenizer reports.      *)
(* strip delegates lexing and reconstruction to the standard library       *)
(* (tokenize.tokenize, tokenize.untokenize of CPython 3.11); both are      *)
(* modelled as they compute, for the characters of the alphabet below.     *)
(***************************************************************************)
EXTENDS Integers, Sequences, FiniteSets, TLC

\* ------------------------------------------------------------------ bounds
\* Number of fragments a source buffer is built from.
MaxFrags == 4

\* ------------------------------------------------------------ characters
LF == "\n"
BSL == "\\"
QUOTE == "'"
HASH == "#"
BAD80 == "<80>"
U0080 == "U+0080"

\* [ \f\t] : the tokenizer's Whitespace class
IsBlankChar(c) == c \in {" ", "\t", "\f"}

\* characters str.rstrip() / str.strip() remove
IsStripChar(c) == c \in {" ", "\t", "\f", "\n", "\r", "<0B>"}

\* characters str.splitlines() breaks a line at
IsLineBoundary(c) == c \in {"\n", "\r", "\f", "<0B>"}

IsDigit(c) == c \in {"0", "1", "2", "3", "4", "5", "6", "7", "8", "9"}

Letters ==
  {"a", "c", "d", "e", "f", "g", "i", "k", "l", "n", "o", "p", "q", "t", "x", "y", "z",
   "A", "N", "O", "Q"}

\* \w
IsWordChar(c) == c \in Letters \/ IsDigit(c)

\* the one-character operators of the alphabet (token.EXACT_TOKEN_TYPES)
IsOpChar(c) == c \in {":", "(", ")"}

\* ------------------------------------------------------- sequence helpers
\* s[a:b] of Python, 0-based, for 0 <= a and b <= len(s)
Slice(s, a, b) == IF b <= a THEN <<>> ELSE SubSeq(s, a + 1, b)

\* s[-n:] of Python
LastN(s, n) == IF Len(s) <= n THEN s ELSE SubSeq(s, Len(s) - n + 1, Len(s))

\* s[i] of Python, or "EOL" past the end
At(s, i) == IF i >= 0 /\ i < Len(s) THEN s[i + 1] ELSE "EOL"

RECURSIVE Flatten(_)
Flatten(ss) == IF ss = <<>> THEN <<>> ELSE Head(ss) \o Flatten(Tail(ss))

RECURSIVE Spaces(_)
Spaces(n) == IF n <= 0 THEN <<>> ELSE <<" ">> \o Spaces(n - 1)

RECURSIVE Repeat(_, _)
Repeat(s, n) == IF n <= 0 THEN <<>> ELSE s \o Repeat(s, n - 1)

RECURSIVE CountChar(_, _)
CountChar(s, c) ==
  IF s = <<>> THEN 0
  ELSE (IF Head(s) = c THEN 1 ELSE 0) + CountChar(Tail(s), c)

Contains(s, c) == \E i \in 1..Len(s) : s[i] = c

\* s.startswith(p, at)
StartsWithAt(s, p, at) ==
  /\ at + Len(p) <= Len(s)
  /\ \A i \in 1..Len(p) : s[at + i] = p[i]

IsInfix(p, s) == \E at \in 0..(Len(s) - Len(p)) : StartsWithAt(s, p, at)

\* first index >= i (0-based) whose character fails Test, for Test = IsBlankChar
RECURSIVE SkipBlank(_, _)
SkipBlank(s, i) == IF IsBlankChar(At(s, i)) THEN SkipBlank(s, i + 1) ELSE i

RECURSIVE SkipWord(_, _)
SkipWord(s, i) == IF IsWordChar(At(s, i)) THEN SkipWord(s, i + 1) ELSE i

RECURSIVE SkipDigits(_, _)
SkipDigits(s, i) == IF IsDigit(At(s, i)) THEN SkipDigits(s, i + 1) ELSE i

\* end of a comment that starts at i: #[^\r\n]*
RECURSIVE SkipComment(_, _)
SkipComment(s, i) ==
  IF At(s, i) \in {"EOL", "\n", "\r"} THEN i ELSE SkipComment(s, i + 1)

\* str.rstrip()
RECURSIVE RStrip(_)
RStrip(s) ==
  IF s # <<>> /\ IsStripChar(s[Len(s)]) THEN RStrip(SubSeq(s, 1, Len(s) - 1)) ELSE s

\* str.rstrip('\r\n')
RECURSIVE RStripCRLF(_)
RStripCRLF(s) ==
  IF s # <<>> /\ s[Len(s)] \in {"\r", "\n"} THEN RStripCRLF(SubSeq(s, 1, Len(s) - 1)) ELSE s

\* str.lstrip()
RECURSIVE LStrip(_)
LStrip(s) == IF s # <<>> /\ IsStripChar(Head(s)) THEN LStrip(Tail(s)) ELSE s

\* str.strip()
StripWs(s) == LStrip(RStrip(s))

\* io.BytesIO.readline, called until it returns b"": lines end after each LF
RECURSIVE ReadLines(_, _)
ReadLines(bytes, cur) ==
  IF bytes = <<>> THEN (IF cur = <<>> THEN <<>> ELSE <<cur>>)
  ELSE IF Head(bytes) = LF THEN <<cur \o <<LF>>>> \o ReadLines(Tail(bytes), <<>>)
  ELSE ReadLines(Tail(bytes), cur \o <<Head(bytes)>>)

\* ------------------------------------------------------------- encodings
UTF8 == <<"u", "t", "f", "-", "8">>
LATIN == <<"l", "a", "t", "i", "n">>

\* bytes.decode("utf-8"): 0x80 is valid only as the second byte of C2 80
RECURSIVE DecodeUtf8(_)
DecodeUtf8(bytes) ==
  IF bytes = <<>> THEN [ok |-> TRUE, text |-> <<>>]
  ELSE IF Head(bytes) = "<C2>"
  THEN IF Len(bytes) >= 2 /\ bytes[2] = BAD80
       THEN LET r == DecodeUtf8(Tail(Tail(bytes))) IN
            [ok |-> r.ok, text |-> <<U0080>> \o r.text]
       ELSE [ok |-> FALSE, text |-> <<>>]
  ELSE IF Head(bytes) = BAD80 THEN [ok |-> FALSE, text |-> <<>>]
  ELSE LET r == DecodeUtf8(Tail(bytes)) IN [ok |-> r.ok, text |-> <<Head(bytes)>> \o r.text]

\* bytes.decode(encoding): [ok, text]; latin-1 maps every byte to a character
Decode(bytes, encoding) ==
  IF encoding = UTF8 THEN DecodeUtf8(bytes)
  ELSE [ok |-> TRUE,
        text |-> [i \in 1..Len(bytes) |-> IF bytes[i] = BAD80 THEN U0080 ELSE bytes[i]]]

\* str.encode(encoding) of text the alphabet can hold
Encode(text, encoding) ==
  IF encoding = UTF8
  THEN Flatten([i \in 1..Len(text) |->
                  IF text[i] = U0080 THEN <<"<C2>", BAD80>> ELSE <<text[i]>>])
  ELSE [i \in 1..Len(text) |-> IF text[i] = U0080 THEN BAD80 ELSE text[i]]

CODING == <<"c", "o", "d", "i", "n", "g">>

\* [ \t]* of cookie_re
RECURSIVE SkipSpTab(_, _)
SkipSpTab(s, i) == IF At(s, i) \in {" ", "\t"} THEN SkipSpTab(s, i + 1) ELSE i

\* coding[:=][ \t]*([-\w.]+) matches at k
CookieAt(line, k) ==
  /\ StartsWithAt(line, CODING, k)
  /\ At(line, k + 6) \in {":", "="}
  /\ IsWordChar(At(line, SkipSpTab(line, k + 7)))

\* group(1) of cookie_re, ^[ \t\f]*#.*?coding[:=][ \t]*([-\w.]+), for the
\* first (non-greedy) match, or <<>>
CookieName(line) ==
  LET h == SkipBlank(line, 0)
      ks == {k \in (h + 1)..Len(line) : CookieAt(line, k)}
  IN IF At(line, h) # HASH \/ ks = {} THEN <<>>
     ELSE LET k == CHOOSE k \in ks : \A j \in ks : k <= j
              b == SkipSpTab(line, k + 7)
          IN Slice(line, b, SkipWord(line, b))

\* codecs.lookup: of the names the alphabet spells only "latin" is a codec
LookupCodec(name) == IF name = LATIN THEN LATIN ELSE <<>>

\* find_cookie of detect_encoding: [err, encoding] (<<>> = no cookie)
find_cookie(line) ==
  IF ~Decode(line, UTF8).ok THEN [err |-> "SyntaxError", encoding |-> <<>>]
  ELSE LET name == CookieName(line) IN
       IF name = <<>> THEN [err |-> "", encoding |-> <<>>]
       ELSE IF LookupCodec(name) = <<>> THEN [err |-> "SyntaxError", encoding |-> <<>>]
       ELSE [err |-> "", encoding |-> LookupCodec(name)]

\* blank_re: ^[ \t\f]*(?:[#\r\n]|$)
blank_re(line) == At(line, SkipBlank(line, 0)) \in {HASH, "\r", LF, "EOL"}

\* tokenize.detect_encoding on the lines readline yields: [err, encoding]
detect_encoding(lines) ==
  IF lines = <<>> THEN [err |-> "", encoding |-> UTF8]
  ELSE LET c1 == find_cookie(lines[1]) IN
       IF c1.err # "" \/ c1.encoding # <<>> THEN c1
       ELSE IF ~blank_re(lines[1]) \/ Len(lines) < 2 THEN [err |-> "", encoding |-> UTF8]
       ELSE LET c2 == find_cookie(lines[2]) IN
            IF c2.err # "" \/ c2.encoding # <<>> THEN c2
            ELSE [err |-> "", encoding |-> UTF8]

\* -------------------------------------------------------------- tokens
Tok(type, string, srow, scol, erow, ecol) ==
  [type |-> type, string |-> string, srow |-> srow, scol |-> scol,
   erow |-> erow, ecol |-> ecol]

Emit(st, tok) == [st EXCEPT !.toks = Append(@, tok)]

\* endprog.match(line, pos) for Single3 (triple) or Single: the end of the
\* match, or -1
RECURSIVE EndMatch(_, _, _)
EndMatch(line, i, triple) ==
  LET c == At(line, i) IN
  CASE c = "EOL" -> -1
    [] c = QUOTE ->
         IF ~triple THEN i + 1
         ELSE IF At(line, i + 1) = QUOTE /\ At(line, i + 2) = QUOTE THEN i + 3
         ELSE EndMatch(line, i + 1, triple)
    [] c = BSL ->
         IF At(line, i + 1) \in {"EOL", LF} THEN -1
         ELSE EndMatch(line, i + 2, triple)
    [] OTHER -> EndMatch(line, i + 1, triple)

\* ContStr at the quote at i - 1: '[^\n'\\]*(?:\\.[^\n'\\]*)*('|\\\r?\n);
\* the end of the match, or -1
RECURSIVE MatchContStr(_, _)
MatchContStr(line, i) ==
  LET c == At(line, i) IN
  CASE c \in {"EOL", LF} -> -1
    [] c = QUOTE -> i + 1
    [] c = BSL ->
         IF At(line, i + 1) = LF THEN i + 2
         ELSE IF At(line, i + 1) = "\r" /\ At(line, i + 2) = LF THEN i + 3
         ELSE IF At(line, i + 1) = "EOL" THEN -1
         ELSE MatchContStr(line, i + 2)
    [] OTHER -> MatchContStr(line, i + 1)

\* One pass of "while pos < max" of _tokenize over the rest of the line:
\* PseudoToken = Whitespace + group(\\\r?\n|\Z, Comment, Triple, Number,
\* Funny, ContStr, Name), then the branch on the token's first character.
RECURSIVE ScanLine(_, _, _, _)
ScanLine(line, lnum, pos, st) ==
  IF pos >= Len(line) THEN st
  ELSE
    LET p == SkipBlank(line, pos)
        c == At(line, p)
        NoMatch == ScanLine(line, lnum, pos + 1,
                     Emit(st, Tok("ERRORTOKEN", <<At(line, pos)>>, lnum, pos, lnum, pos + 1)))
        Yield(type, e) == ScanLine(line, lnum, e,
                            Emit(st, Tok(type, Slice(line, p, e), lnum, p, lnum, e)))
    IN
    CASE c = "EOL" -> st
      [] c = BSL ->
           IF At(line, p + 1) = LF
           THEN ScanLine(line, lnum, p + 2, [st EXCEPT !.continued = 1])
           ELSE IF At(line, p + 1) = "\r" /\ At(line, p + 2) = LF
           THEN ScanLine(line, lnum, p + 3, [st EXCEPT !.continued = 1])
           ELSE NoMatch
      [] c = HASH -> Yield("COMMENT", SkipComment(line, p))
      [] c = QUOTE /\ At(line, p + 1) = QUOTE /\ At(line, p + 2) = QUOTE ->
           LET e == EndMatch(line, p + 3, TRUE) IN
           IF e >= 0 THEN Yield("STRING", e)
           ELSE [st EXCEPT !.contstr = Slice(line, p, Len(line)),
                           !.strstart = <<lnum, p>>, !.triple = TRUE]
      [] c = QUOTE /\ ~(At(line, p + 1) = QUOTE /\ At(line, p + 2) = QUOTE) ->
           LET e == MatchContStr(line, p + 1) IN
           IF e < 0 THEN NoMatch
           ELSE IF At(line, e - 1) = LF
           THEN [st EXCEPT !.contstr = Slice(line, p, Len(line)), !.needcont = 1,
                           !.strstart = <<lnum, p>>, !.triple = FALSE]
           ELSE Yield("STRING", e)
      [] c = LF -> Yield(IF st.parenlev > 0 THEN "NL" ELSE "NEWLINE", p + 1)
      [] c = "\r" /\ At(line, p + 1) = LF ->
           Yield(IF st.parenlev > 0 THEN "NL" ELSE "NEWLINE", p + 2)
      [] IsDigit(c) -> Yield("NUMBER", SkipDigits(line, p))
      [] IsWordChar(c) /\ ~IsDigit(c) -> Yield("NAME", SkipWord(line, p))
      [] IsOpChar(c) ->
           ScanLine(line, lnum, p + 1,
             Emit([st EXCEPT !.parenlev = IF c = "(" THEN @ + 1
                                          ELSE IF c = ")" THEN @ - 1 ELSE @],
                  Tok("OP", <<c>>, lnum, p, lnum, p + 1)))
      [] OTHER -> NoMatch

\* column of the first non-blank character: tabs to the next multiple of
\* tabsize, a form feed resets it
tabsize == 8

RECURSIVE MeasureIndent(_, _, _)
MeasureIndent(line, pos, column) ==
  LET c == At(line, pos) IN
  CASE c = " " -> MeasureIndent(line, pos + 1, column + 1)
    [] c = "\t" -> MeasureIndent(line, pos + 1, ((column \div tabsize) + 1) * tabsize)
    [] c = "\f" -> MeasureIndent(line, pos + 1, 0)
    [] OTHER -> column

InSeq(x, s) == \E i \in 1..Len(s) : s[i] = x

\* "while column < indents[-1]": DEDENT tokens, or IndentationError
RECURSIVE Dedent(_, _, _, _)
Dedent(st, column, lnum, pos) ==
  IF column >= st.indents[Len(st.indents)] THEN st
  ELSE IF ~InSeq(column, st.indents) THEN [st EXCEPT !.status = "IndentationError"]
  ELSE Dedent(Emit([st EXCEPT !.indents = SubSeq(@, 1, Len(@) - 1)],
                   Tok("DEDENT", <<>>, lnum, pos, lnum, pos)),
              column, lnum, pos)

\* the body of "while True" of _tokenize for one line read (<<>> at end of
\* input); status "stop" is the break out of the loop
TokenizeLine(st0, raw) ==
  LET dec == Decode(raw, st0.encoding)
      line == dec.text
      lnum == st0.lnum + 1
      st == [st0 EXCEPT !.lnum = lnum, !.last_line = st0.line, !.line = line]
      max == Len(line)
  IN
  IF ~dec.ok THEN [st EXCEPT !.status = "UnicodeDecodeError"]
  ELSE IF st.contstr # <<>> THEN
    IF line = <<>> THEN [st EXCEPT !.status = "TokenError"]
    ELSE LET e == EndMatch(line, 0, st.triple) IN
         IF e >= 0
         THEN ScanLine(line, lnum, e,
                Emit([st EXCEPT !.contstr = <<>>, !.needcont = 0],
                     Tok("STRING", st.contstr \o Slice(line, 0, e),
                         st.strstart[1], st.strstart[2], lnum, e)))
         ELSE IF st.needcont = 1 /\ LastN(line, 2) # <<BSL, LF>>
                 /\ LastN(line, 3) # <<BSL, "\r", LF>>
         THEN Emit([st EXCEPT !.contstr = <<>>],
                   Tok("ERRORTOKEN", st.contstr \o line,
                       st.strstart[1], st.strstart[2], lnum, max))
         ELSE [st EXCEPT !.contstr = @ \o line]
  ELSE IF st.parenlev = 0 /\ st.continued = 0 THEN
    IF line = <<>> THEN [st EXCEPT !.status = "stop"]
    ELSE LET pos == SkipBlank(line, 0)
             column == MeasureIndent(line, 0, 0)
         IN
         IF pos = max THEN [st EXCEPT !.status = "stop"]
         ELSE IF At(line, pos) \in {HASH, "\r", LF} THEN
           LET ce == IF At(line, pos) = HASH THEN Len(RStripCRLF(line)) ELSE pos
               s1 == IF At(line, pos) = HASH
                     THEN Emit(st, Tok("COMMENT", Slice(line, pos, ce), lnum, pos, lnum, ce))
                     ELSE st
           IN Emit(s1, Tok("NL", Slice(line, ce, max), lnum, ce, lnum, max))
         ELSE
           LET s1 == IF column > st.indents[Len(st.indents)]
                     THEN Emit([st EXCEPT !.indents = Append(@, column)],
                               Tok("INDENT", Slice(line, 0, pos), lnum, 0, lnum, pos))
                     ELSE st
               s2 == Dedent(s1, column, lnum, pos)
           IN IF s2.status # "run" THEN s2 ELSE ScanLine(line, lnum, pos, s2)
  ELSE
    IF line = <<>> THEN [st EXCEPT !.status = "TokenError"]
    ELSE ScanLine(line, lnum, 0, [st EXCEPT !.continued = 0])

\* the tokenizer's variables before the first line is read
TokenizerInit(encoding) ==
  [toks |-> <<Tok("ENCODING", encoding, 0, 0, 0, 0)>>, encoding |-> encoding,
   lnum |-> 0, parenlev |-> 0, continued |-> 0, contstr |-> <<>>, needcont |-> 0,
   strstart |-> <<0, 0>>, triple |-> FALSE, indents |-> <<0>>,
   last_line |-> <<>>, line |-> <<>>, status |-> "run"]

\* "while True" of _tokenize: readline returns <<>> once the lines are used up
RECURSIVE TokenizeLoop(_, _, _)
TokenizeLoop(st, lines, i) ==
  IF st.status # "run" THEN st
  ELSE TokenizeLoop(TokenizeLine(st, IF i <= Len(lines) THEN lines[i] ELSE <<>>),
                    lines, i + 1)

\* after the loop: the implicit NEWLINE, the remaining DEDENTs, ENDMARKER
TokenizeEnd(st) ==
  LET ll == st.last_line
      implicit == /\ ll # <<>>
                  /\ ll[Len(ll)] \notin {"\r", LF}
                  /\ At(StripWs(ll), 0) # HASH
      s1 == IF implicit
            THEN Emit(st, Tok("NEWLINE", <<>>, st.lnum - 1, Len(ll), st.lnum - 1, Len(ll) + 1))
            ELSE st
      dedents == [i \in 1..(Len(st.indents) - 1) |->
                    Tok("DEDENT", <<>>, st.lnum, 0, st.lnum, 0)]
  IN s1.toks \o dedents \o <<Tok("ENDMARKER", <<>>, st.lnum, 0, st.lnum, 0)>>

\* list(tokenize.tokenize(BytesIO(source_bytes).readline)): [exc, toks];
\* exc is "" or the exception the generator raises
Tokenize(source) ==
  LET lines == ReadLines(source, <<>>)
      de == detect_encoding(lines)
  IN IF de.err # "" THEN [exc |-> de.err, toks |-> <<>>]
     ELSE LET st == TokenizeLoop(TokenizerInit(de.encoding), lines, 1) IN
          IF st.status = "stop" THEN [exc |-> "", toks |-> TokenizeEnd(st)]
          ELSE [exc |-> st.status, toks |-> <<>>]

\* ------------------------------------------------------------ untokenize
\* Untokenizer.add_whitespace
add_whitespace(u, row, col) ==
  IF row < u.prev_row \/ (row = u.prev_row /\ col < u.prev_col)
  THEN [u EXCEPT !.exc = "ValueError"]
  ELSE LET row_offset == row - u.prev_row
           u1 == IF row_offset # 0
                 THEN [u EXCEPT !.out = @ \o Repeat(<<BSL, LF>>, row_offset), !.prev_col = 0]
                 ELSE u
       IN [u1 EXCEPT !.out = @ \o Spaces(col - u1.prev_col)]

\* one iteration of the loop of Untokenizer.untokenize
UntokenizeStep(u, t) ==
  CASE t.type = "ENCODING" -> [u EXCEPT !.encoding = t.string]
    [] t.type = "ENDMARKER" -> [u EXCEPT !.stop = TRUE]
    [] t.type = "INDENT" -> [u EXCEPT !.indents = Append(@, t.string)]
    [] t.type = "DEDENT" ->
         [u EXCEPT !.indents = SubSeq(@, 1, Len(@) - 1),
                   !.prev_row = t.erow, !.prev_col = t.ecol]
    [] OTHER ->
         LET isnl == t.type \in {"NEWLINE", "NL"}
             indent == u.indents[Len(u.indents)]
             u1 == IF isnl THEN [u EXCEPT !.startline = TRUE]
                   ELSE IF u.startline /\ u.indents # <<>>
                   THEN IF t.scol >= Len(indent)
                        THEN [u EXCEPT !.out = @ \o indent, !.prev_col = Len(indent),
                                       !.startline = FALSE]
                        ELSE [u EXCEPT !.startline = FALSE]
                   ELSE u
             u2 == add_whitespace(u1, t.srow, t.scol)
         IN IF u2.exc # "" THEN u2
            ELSE [u2 EXCEPT !.out = @ \o t.string,
                            !.prev_row = IF isnl THEN t.erow + 1 ELSE t.erow,
                            !.prev_col = IF isnl THEN 0 ELSE t.ecol]

RECURSIVE UntokenizeLoop(_, _, _)
UntokenizeLoop(u, toks, i) ==
  IF i > Len(toks) \/ u.stop \/ u.exc # "" THEN u
  ELSE UntokenizeLoop(UntokenizeStep(u, toks[i]), toks, i + 1)

\* tokenize.untokenize(result_tokens): [exc, bytes]
Untokenize(toks) ==
  LET u == UntokenizeLoop([out |-> <<>>, prev_row |-> 1, prev_col |-> 0,
                           encoding |-> <<>>, indents |-> <<>>, startline |-> FALSE,
                           stop |-> FALSE, exc |-> ""], toks, 1)
  IN IF u.exc # "" THEN [exc |-> u.exc, bytes |-> <<>>]
     ELSE [exc |-> "",
           bytes |-> IF u.encoding = <<>> THEN u.out ELSE Encode(u.out, u.encoding)]

\* ----------------------------------------------------------- keep pattern
\* keep_pattern is None, DEFAULT_KEEP_PATTERN or the compiled r"#\s*x"
KeepPatterns == {"None", "DEFAULT", "CUSTOM"}

Lower(c) ==
  CASE c = "A" -> "a" [] c = "N" -> "n" [] c = "O" -> "o" [] c = "Q" -> "q"
    [] OTHER -> c

LowerSeq(s) == [i \in 1..Len(s) |-> Lower(s[i])]

\* the alternatives of DEFAULT_KEEP_PATTERN
DEFAULT_KEEP_KEYWORDS ==
  {<<"p", "y", "l", "i", "n", "t", ":">>, <<"f", "l", "a", "k", "e", "8", ":">>,
   <<"t", "y", "p", "e", ":">>, <<"n", "o", "q", "a", ":">>}

\* \s*
RECURSIVE SkipReSpace(_, _)
SkipReSpace(s, i) == IF IsStripChar(At(s, i)) THEN SkipReSpace(s, i + 1) ELSE i

\* mutant: the pattern compiled without re.IGNORECASE
KeepMatch_CaseSensitive(kp, string) ==
  /\ kp # "None"
  /\ At(string, 0) = HASH
  /\ LET b == SkipReSpace(string, 1) IN
     IF kp = "DEFAULT"
     THEN \E kw \in DEFAULT_KEEP_KEYWORDS : StartsWithAt(string, kw, b)
     ELSE At(string, b) = "x"

\* keep_pattern and keep_pattern.match(tok.string)
KeepMatch(kp, string) ==
  /\ kp # "None"
  /\ At(string, 0) = HASH
  /\ LET b == SkipReSpace(string, 1) IN
     IF kp = "DEFAULT"
     THEN \E kw \in DEFAULT_KEEP_KEYWORDS : StartsWithAt(LowerSeq(string), kw, b)
     ELSE At(string, b) = "x"

\* mutant: a token is taken for a comment when its text holds a '#'
RECURSIVE FilterTokens_HashAnywhere(_, _)
FilterTokens_HashAnywhere(toks, kp) ==
  IF toks = <<>> THEN <<>>
  ELSE LET tok == Head(toks) IN
       IF Contains(tok.string, HASH) /\ ~KeepMatch(kp, tok.string)
       THEN FilterTokens_HashAnywhere(Tail(toks), kp)
       ELSE <<tok>> \o FilterTokens_HashAnywhere(Tail(toks), kp)

\* mutant: the NL token that ends a comment-only line is dropped with the comment
RECURSIVE FilterTokens_DropNL(_, _)
FilterTokens_DropNL(toks, kp) ==
  IF toks = <<>> THEN <<>>
  ELSE LET tok == Head(toks) IN
       IF tok.type = "COMMENT" /\ ~KeepMatch(kp, tok.string)
       THEN IF Tail(toks) # <<>> /\ Head(Tail(toks)).type = "NL"
            THEN FilterTokens_DropNL(Tail(Tail(toks)), kp)
            ELSE FilterTokens_DropNL(Tail(toks), kp)
       ELSE <<tok>> \o FilterTokens_DropNL(Tail(toks), kp)

\* mutant: "if keep_pattern:" without the match
RECURSIVE FilterTokens_KeepIfPattern(_, _)
FilterTokens_KeepIfPattern(toks, kp) ==
  IF toks = <<>> THEN <<>>
  ELSE LET tok == Head(toks) IN
       IF tok.type = "COMMENT" /\ kp = "None"
       THEN FilterTokens_KeepIfPattern(Tail(toks), kp)
       ELSE <<tok>> \o FilterTokens_KeepIfPattern(Tail(toks), kp)

\* the loop "for tok in g" of strip
RECURSIVE FilterTokens(_, _)
FilterTokens(toks, kp) ==
  IF toks = <<>> THEN <<>>
  ELSE LET tok == Head(toks) IN
       IF tok.type = "COMMENT"
       THEN IF KeepMatch(kp, tok.string)
            THEN <<tok>> \o FilterTokens(Tail(toks), kp)
            ELSE FilterTokens(Tail(toks), kp)
       ELSE <<tok>> \o FilterTokens(Tail(toks), kp)

\* ---------------------------------------------------------- post-processing
\* str.splitlines()
RECURSIVE SplitLines(_, _)
SplitLines(s, cur) ==
  IF s = <<>> THEN (IF cur = <<>> THEN <<>> ELSE <<cur>>)
  ELSE IF Head(s) = "\r" /\ Len(s) >= 2 /\ s[2] = LF
  THEN <<cur>> \o SplitLines(Tail(Tail(s)), <<>>)
  ELSE IF IsLineBoundary(Head(s)) THEN <<cur>> \o SplitLines(Tail(s), <<>>)
  ELSE SplitLines(Tail(s), Append(cur, Head(s)))

\* mutant: the line is kept as it is, without rstrip()
RECURSIVE ProcessLines_NoRStrip(_, _)
ProcessLines_NoRStrip(lines, rel) ==
  IF lines = <<>> THEN <<>>
  ELSE IF rel /\ StripWs(Head(lines)) = <<>> THEN ProcessLines_NoRStrip(Tail(lines), rel)
  ELSE <<Head(lines)>> \o ProcessLines_NoRStrip(Tail(lines), rel)

\* mutant: blank lines are dropped whatever remove_empty_lines says
RECURSIVE ProcessLines_AlwaysDrop(_, _)
ProcessLines_AlwaysDrop(lines, rel) ==
  IF lines = <<>> THEN <<>>
  ELSE IF StripWs(Head(lines)) = <<>> THEN ProcessLines_AlwaysDrop(Tail(lines), rel)
  ELSE <<RStrip(Head(lines))>> \o ProcessLines_AlwaysDrop(Tail(lines), rel)

\* mutant: "if line:" instead of "if stripped_line.strip():"
RECURSIVE ProcessLines_IfLine(_, _)
ProcessLines_IfLine(lines, rel) ==
  IF lines = <<>> THEN <<>>
  ELSE IF rel /\ Head(lines) = <<>> THEN ProcessLines_IfLine(Tail(lines), rel)
  ELSE <<RStrip(Head(lines))>> \o ProcessLines_IfLine(Tail(lines), rel)

\* mutant: line.strip() instead of line.rstrip()
RECURSIVE ProcessLines_Strip(_, _)
ProcessLines_Strip(lines, rel) ==
  IF lines = <<>> THEN <<>>
  ELSE IF rel /\ StripWs(Head(lines)) = <<>> THEN ProcessLines_Strip(Tail(lines), rel)
  ELSE <<StripWs(Head(lines))>> \o ProcessLines_Strip(Tail(lines), rel)

\* the loop "for line in lines" of strip
RECURSIVE ProcessLines(_, _)
ProcessLines(lines, rel) ==
  IF lines = <<>> THEN <<>>
  ELSE LET stripped_line == RStrip(Head(lines)) IN
       IF rel
       THEN IF StripWs(stripped_line) # <<>>
            THEN <<stripped_line>> \o ProcessLines(Tail(lines), rel)
            ELSE ProcessLines(Tail(lines), rel)
       ELSE <<stripped_line>> \o ProcessLines(Tail(lines), rel)

\* mutant: "\n".join(processed_lines) without the final newline
RECURSIVE JoinLines_NoFinal(_)
JoinLines_NoFinal(lines) ==
  IF lines = <<>> THEN <<>>
  ELSE IF Len(lines) = 1 THEN Head(lines)
  ELSE Head(lines) \o <<LF>> \o JoinLines_NoFinal(Tail(lines))

\* "\n".join(processed_lines) + "\n", or "" when there is no line
RECURSIVE JoinLines(_)
JoinLines(lines) ==
  IF lines = <<>> THEN <<>> ELSE Head(lines) \o <<LF>> \o JoinLines(Tail(lines))

\* the post-processing block of strip: [exc, bytes]
PostProcess(intermediate, rel) ==
  LET d == Decode(intermediate, UTF8) IN
  IF ~d.ok THEN [exc |-> "UnicodeDecodeError", bytes |-> <<>>]
  ELSE [exc |-> "",
        bytes |-> Encode(JoinLines(ProcessLines(SplitLines(d.text, <<>>), rel)), UTF8)]

\* ------------------------------------------------------------------ paths
\* A path is the sequence of its components below the root, every component
\* a sequence of characters; all paths are absolute, so Path.resolve() is the
\* identity on the ones that resolve.

\* code points of the characters path names are made of
Ord(c) ==
  CASE c = "*" -> 42 [] c = "." -> 46 [] c = "2" -> 50
    [] c = "a" -> 97 [] c = "b" -> 98 [] c = "c" -> 99 [] c = "d" -> 100
    [] c = "g" -> 103 [] c = "o" -> 111 [] c = "p" -> 112 [] c = "s" -> 115 [] c = "t" -> 116
    [] c = "x" -> 120 [] c = "y" -> 121 [] c = "z" -> 122
    [] OTHER -> 0

\* a < b for str
RECURSIVE StrLess(_, _)
StrLess(a, b) ==
  IF b = <<>> THEN FALSE
  ELSE IF a = <<>> THEN TRUE
  ELSE IF Head(a) = Head(b) THEN StrLess(Tail(a), Tail(b))
  ELSE Ord(Head(a)) < Ord(Head(b))

\* p < q for PurePath: the comparison of the lists of parts
RECURSIVE PathLess(_, _)
PathLess(p, q) ==
  IF q = <<>> THEN FALSE
  ELSE IF p = <<>> THEN TRUE
  ELSE IF Head(p) = Head(q) THEN PathLess(Tail(p), Tail(q))
  ELSE StrLess(Head(p), Head(q))

\* sorted(list(s)) for a set of paths
RECURSIVE SortPaths(_)
SortPaths(s) ==
  IF s = {} THEN <<>>
  ELSE LET least == CHOOSE p \in s : \A q \in s \ {p} : PathLess(p, q) IN
       <<least>> \o SortPaths(s \ {least})

\* PurePath.name, PurePath.parent
PathName(p) == p[Len(p)]

PathParent(p) == SubSeq(p, 1, Len(p) - 1)

\* name.rfind("."), 0-based, -1 when there is none
RECURSIVE RFindDot(_)
RFindDot(name) ==
  IF name = <<>> THEN 0 - 1
  ELSE IF name[Len(name)] = "." THEN Len(name) - 1
  ELSE RFindDot(SubSeq(name, 1, Len(name) - 1))

\* PurePath.suffix: the last dot and what follows it, unless that dot starts
\* or ends the name
PathSuffix(p) ==
  LET name == PathName(p)
      i == RFindDot(name) IN
  IF 0 < i /\ i < Len(name) - 1 THEN SubSeq(name, i + 1, Len(name)) ELSE <<>>

\* PurePath.with_suffix(suffix)
WithSuffix(p, suffix) ==
  LET name == PathName(p)
      old == PathSuffix(p)
      new == IF old = <<>> THEN name \o suffix
             ELSE SubSeq(name, 1, Len(name) - Len(old)) \o suffix IN
  Append(PathParent(p), new)

\* s.endswith(e)
EndsWith(s, e) == Len(e) <= Len(s) /\ LastN(s, Len(e)) = e

\* str(path).endswith(ext) for an extension without "/": decided by the name
PathEndsWith(p, ext) == p # <<>> /\ EndsWith(PathName(p), ext)

\* fnmatch of "*.py" against a name
MatchesStarPy(name) == EndsWith(name, <<".", "p", "y">>)

IsPrefixPath(base, p) == Len(base) <= Len(p) /\ SubSeq(p, 1, Len(base)) = base

\* p.relative_to(base) where base is an ancestor of p or p itself
RelativeTo(p, base) == SubSeq(p, Len(base) + 1, Len(p))

\* os.path.commonpath of two absolute paths
RECURSIVE CommonPrefix(_, _)
CommonPrefix(p, q) ==
  IF p = <<>> \/ q = <<>> \/ Head(p) # Head(q) THEN <<>>
  ELSE <<Head(p)>> \o CommonPrefix(Tail(p), Tail(q))

RECURSIVE CommonPath(_)
CommonPath(ps) ==
  IF Len(ps) = 1 THEN ps[1] ELSE CommonPrefix(ps[1], CommonPath(Tail(ps)))

\* ----------------------------------------------------------------- config
GZ == <<".", "g", "z">>

BZ2 == <<".", "b", "z", "2">>

XZ == <<".", "x", "z">>

\* the dict COMPRESSION_ALGORITHMS_DATA in insertion order; opener is TRUE
\* when getattr(module, "open", None) is not None
COMPRESSION_ALGORITHMS_DATA ==
  <<[name |-> "gzip", opener |-> TRUE, extension |-> GZ],
    [name |-> "bz2", opener |-> TRUE, extension |-> BZ2],
    [name |-> "lzma", opener |-> TRUE, extension |-> XZ]>>

INITIAL_DEFAULT_COMPRESSION == "gzip"

\* what algorithms.get(algo) returns for a missing key, and a None algorithm
NoSettings == [name |-> "None", opener |-> FALSE, extension |-> <<>>]

\* algo in algorithms
HasAlgo(algorithms, algo) == \E i \in DOMAIN algorithms : algorithms[i].name = algo

\* algorithms[algo]
AlgoEntry(algorithms, algo) ==
  algorithms[CHOOSE i \in DOMAIN algorithms : algorithms[i].name = algo]

\* mutant: no fallback to another algorithm of the table
get_default_compression_NoFallback(algorithms, initial_default) == initial_default

get_default_compression(algorithms, initial_default) ==
  IF HasAlgo(algorithms, initial_default) /\ AlgoEntry(algorithms, initial_default).opener
  THEN initial_default
  ELSE IF \E i \in DOMAIN algorithms : algorithms[i].opener
  THEN LET first == CHOOSE i \in DOMAIN algorithms :
                      /\ algorithms[i].opener
                      /\ \A j \in 1..(i - 1) : ~algorithms[j].opener IN
       algorithms[first].name
  ELSE initial_default

DEFAULT_COMPRESSION ==
  get_default_compression(COMPRESSION_ALGORITHMS_DATA, INITIAL_DEFAULT_COMPRESSION)

is_compression_available(algo, algorithms) ==
  /\ algo # "None"
  /\ HasAlgo(algorithms, algo)
  /\ AlgoEntry(algorithms, algo).opener

get_compression_settings(algo, algorithms) ==
  IF algo # "None" /\ HasAlgo(algorithms, algo) THEN AlgoEntry(algorithms, algo)
  ELSE NoSettings

\* ------------------------------------------------------------ file system
\* fs.files maps the path of every regular file to its content, fs.dirs is
\* the set of directories; the root is the empty path.
IsFile(fs, p) == p \in DOMAIN fs.files

IsDir(fs, p) == p = <<>> \/ p \in fs.dirs

Exists(fs, p) == IsFile(fs, p) \/ IsDir(fs, p)

\* the ancestors of p, p included, the root excluded
Ancestors(p) == {SubSeq(p, 1, n) : n \in 1..Len(p)}

\* f with the value at key k set to v, k added when it is new
Put(f, k, v) == [x \in DOMAIN f \cup {k} |-> IF x = k THEN v ELSE f[x]]

\* f without the key k
Drop(f, k) == [x \in DOMAIN f \ {k} |-> f[x]]

\* ---------------------------------------------------------- path resolver
PY == <<".", "p", "y">>

\* a pattern whose last component is "*"
HasMagic(path_str) == path_str # <<>> /\ PathName(path_str) = <<"*">>

\* glob.glob(path_str, recursive=True): the entries "*" matches (not the
\* hidden ones), or the path itself when it exists
Glob(fs, path_str) ==
  IF HasMagic(path_str)
  THEN {q \in DOMAIN fs.files \cup fs.dirs :
          /\ Len(q) = Len(path_str)
          /\ PathParent(q) = PathParent(path_str)
          /\ PathName(q)[1] # "."}
  ELSE IF Exists(fs, path_str) THEN {path_str} ELSE {}

\* glob_matches if glob_matches else [path_str]
TargetsToCheck(fs, path_str) ==
  IF Glob(fs, path_str) = {} THEN {path_str} ELSE Glob(fs, path_str)

\* target_path.rglob("*.py") filtered by item.is_file()
RGlobPy(fs, target) ==
  {q \in DOMAIN fs.files :
     IsPrefixPath(target, q) /\ q # target /\ MatchesStarPy(PathName(q))}

\* the paths _process_single_target adds to python_files; resolve() raises
\* OSError for the targets in unresolvable
ProcessSingleTarget(fs, unresolvable, target) ==
  IF target \in unresolvable THEN {}
  ELSE IF ~Exists(fs, target) THEN {}
  ELSE IF IsDir(fs, target) THEN RGlobPy(fs, target)
  ELSE IF PathSuffix(target) = PY THEN {target}
  ELSE {}

gather_python_files(fs, unresolvable, paths) ==
  SortPaths(UNION {UNION {ProcessSingleTarget(fs, unresolvable, t) :
                            t \in TargetsToCheck(fs, paths[i])} :
                   i \in DOMAIN paths})

\* ------------------------------------------------------------ file writer
\* None for an Optional[Path]
NonePath == <<>>

\* what opener(target, "wb") stores for data: the algorithm's container
Compressed(algo, data) == <<algo>> \o data

\* FileWriter.__init__: "" or the exception it raises
FileWriterInit(compress, compression_algo, compression_settings) ==
  IF /\ compress
     /\ \/ compression_algo = "None"
        \/ ~compression_settings.opener
        \/ compression_settings.extension = <<>>
  THEN "ValueError" ELSE ""

\* mutant: the extension is appended whatever the path ends with
EffectiveTargetPath_AlwaysAppend(w, target_path) ==
  IF w.compress /\ target_path # NonePath
  THEN LET expected_ext == w.compression_settings.extension IN
       IF expected_ext # <<>>
       THEN WithSuffix(target_path, PathSuffix(target_path) \o expected_ext)
       ELSE target_path
  ELSE target_path

\* the path FileWriter.write opens for target_path
EffectiveTargetPath(w, target_path) ==
  IF w.compress /\ target_path # NonePath
  THEN LET expected_ext == w.compression_settings.extension IN
       IF expected_ext # <<>> /\ ~PathEndsWith(target_path, expected_ext)
       THEN WithSuffix(target_path, PathSuffix(target_path) \o expected_ext)
       ELSE target_path
  ELSE target_path

\* target_path.parent.mkdir(parents=True, exist_ok=True): "" or the exception
MkdirParents(fs, dir) ==
  IF IsFile(fs, dir) THEN "FileExistsError"
  ELSE IF \E a \in Ancestors(dir) : IsFile(fs, a) THEN "NotADirectoryError"
  ELSE ""

\* open(path, "wb"): "" or the exception; the paths in unwritable cannot be
\* opened for writing
OpenForWrite(fs, unwritable, path) ==
  IF IsDir(fs, path) THEN "IsADirectoryError"
  ELSE IF path \in unwritable THEN "PermissionError"
  ELSE ""

\* FileWriter.write(data, target_path) for the writer w:
\* [exc, fs, out] with the file system left behind and the bytes sent to
\* standard output
FileWriterWrite(fs, unwritable, w, data, target_path) ==
  LET effective == EffectiveTargetPath(w, target_path)
      stored == IF w.compress THEN Compressed(w.compression_settings.name, data) ELSE data
      parent == PathParent(effective) IN
  IF w.compress /\ ~w.compression_settings.opener
  THEN [exc |-> "RuntimeError", fs |-> fs, out |-> <<>>]
  ELSE IF effective = NonePath
  THEN [exc |-> "", fs |-> fs, out |-> stored]
  ELSE IF MkdirParents(fs, parent) # ""
  THEN [exc |-> MkdirParents(fs, parent), fs |-> fs, out |-> <<>>]
  ELSE LET made == [fs EXCEPT !.dirs = @ \cup Ancestors(parent)] IN
       IF OpenForWrite(made, unwritable, effective) # ""
       THEN [exc |-> OpenForWrite(made, unwritable, effective), fs |-> made, out |-> <<>>]
       ELSE [exc |-> "",
             fs |-> [made EXCEPT !.files = Put(@, effective, stored)],
             out |-> <<>>]

\* ------------------------------------------------------------------ state
VARIABLES
  source_bytes,        \* argument of the call in progress
  keep_pattern,        \* argument: a member of KeepPatterns
  remove_empty_lines,  \* argument
  pc,                  \* where the call is
  tokens,              \* what the generator g yields
  result_tokens,       \* the filtered list
  intermediate_bytes,  \* untokenize's output
  cleaned_bytes,       \* the value returned
  exc,                 \* exception raised inside the try block
  raised,              \* exception that leaves strip
  calls                \* number of the call in progress

stripVars == <<source_bytes, keep_pattern, remove_empty_lines, pc, tokens, result_tokens,
               intermediate_bytes, cleaned_bytes, exc, raised, calls>>

VARIABLES
  disk,                \* the file system: [files, dirs]
  no_resolve,          \* paths whose Path.resolve() raises OSError
  no_read,             \* files that cannot be opened for reading
  no_write,            \* paths that cannot be opened for writing
  stdout               \* the bytes written to sys.stdout.buffer

envVars == <<disk, no_resolve, no_read, no_write, stdout>>

VARIABLES
  algorithms,          \* config: argument of get_default_compression
  initial_default,     \* config: argument of get_default_compression
  default_algo,        \* config: the value returned
  config_pc

configVars == <<algorithms, initial_default, default_algo, config_pc>>

VARIABLES
  gather_paths,        \* resolver: argument of gather_python_files
  sorted_files,        \* resolver: the list returned
  gather_pc

gatherVars == <<gather_paths, sorted_files, gather_pc>>

VARIABLES
  writer,              \* a FileWriter: [compress, compression_algo, compression_settings]
  write_args,          \* arguments of FileWriter.write: [data, target_path]
  write_exc,           \* exception that leaves FileWriter.write
  writer_pc

writerVars == <<writer, write_args, write_exc, writer_pc>>

VARIABLES
  argv,                \* the command line, as the parser sees it
  cli_pc,              \* where the CLI is
  output_dir,          \* CLIRunner.output_dir
  compression_algo,    \* CLIRunner.compression_algo
  input_files,         \* CLIRunner.input_files
  base_common_path,    \* CLIRunner.base_common_path
  success_count,       \* CLIRunner.success_count
  fail_count,          \* CLIRunner.fail_count
  exit_code,           \* argument of sys.exit, -1 while the process runs
  file_idx,            \* position of the loop of CLIRunner.run in input_files
  job,                 \* locals of _process_single_file and FileProcessor.process
  events               \* the operations performed so far, in order

cliVars == <<argv, cli_pc, output_dir, compression_algo, input_files, base_common_path,
             success_count, fail_count, exit_code, file_idx, job, events>>

VARIABLES
  frames               \* the locals of each concurrent call of strip

vars == <<stripVars, envVars, configVars, gatherVars, writerVars, cliVars, frames>>

\* the values of the variables of a component that is not running
EmptyDisk == [files |-> <<>>, dirs |-> {}]

StripIdle ==
  /\ source_bytes = <<>>
  /\ keep_pattern = "None"
  /\ remove_empty_lines = FALSE
  /\ pc = "idle"
  /\ tokens = <<>>
  /\ result_tokens = <<>>
  /\ intermediate_bytes = <<>>
  /\ cleaned_bytes = <<>>
  /\ exc = ""
  /\ raised = ""
  /\ calls = 0

EnvIdle ==
  /\ disk = EmptyDisk
  /\ no_resolve = {}
  /\ no_read = {}
  /\ no_write = {}
  /\ stdout = <<>>

ConfigIdle ==
  /\ algorithms = <<>>
  /\ initial_default = "None"
  /\ default_algo = "None"
  /\ config_pc = "idle"

GatherIdle ==
  /\ gather_paths = <<>>
  /\ sorted_files = <<>>
  /\ gather_pc = "idle"

NoWriter == [compress |-> FALSE, compression_algo |-> "None", compression_settings |-> NoSettings]

NoJob ==
  [file_path |-> NonePath, output_dest |-> NonePath, effective_log_path |-> NonePath,
   source_bytes |-> <<>>, cleaned_bytes |-> <<>>, exc |-> ""]

WriterIdle ==
  /\ writer = NoWriter
  /\ write_args = [data |-> <<>>, target_path |-> NonePath]
  /\ write_exc = ""
  /\ writer_pc = "idle"

NoArgv ==
  [paths |-> <<>>, in_place |-> FALSE, output_dir |-> NonePath, compress |-> FALSE,
   algorithm |-> "None"]

CliIdle ==
  /\ argv = NoArgv
  /\ cli_pc = "idle"
  /\ output_dir = NonePath
  /\ compression_algo = "None"
  /\ input_files = <<>>
  /\ base_common_path = <<>>
  /\ success_count = 0
  /\ fail_count = 0
  /\ exit_code = 0 - 1
  /\ file_idx = 0
  /\ job = NoJob
  /\ events = <<>>

FramesIdle == frames = <<>>

notStripVars == <<envVars, configVars, gatherVars, writerVars, cliVars, frames>>

\* calls of strip in a run, each on the previous call's result
MaxCalls == 2

\* the pieces source buffers are built from
CoreFrags == {<<"x">>, <<" ">>, <<LF>>, <<HASH>>, <<QUOTE>>, <<QUOTE, QUOTE, QUOTE>>, <<BSL>>}

Sources(frags) ==
  {Flatten(fs) : fs \in UNION {[1..n -> frags] : n \in 0..MaxFrags}}

InitWith(frags, patterns) ==
  /\ source_bytes \in Sources(frags)
  /\ keep_pattern \in patterns
  /\ remove_empty_lines \in BOOLEAN
  /\ pc = "start"
  /\ tokens = <<>>
  /\ result_tokens = <<>>
  /\ intermediate_bytes = <<>>
  /\ cleaned_bytes = <<>>
  /\ exc = ""
  /\ raised = ""
  /\ calls = 1
  /\ EnvIdle /\ ConfigIdle /\ GatherIdle /\ WriterIdle /\ CliIdle /\ FramesIdle

Init == InitWith(CoreFrags, KeepPatterns)

\* sources with lint directives and look-alikes, default keep pattern
KeepFrags ==
  {<<"x">>, <<" ">>, <<LF>>, <<HASH>>, <<QUOTE, QUOTE, QUOTE>>,
   <<"n", "o", "q", "a", ":">>, <<"N", "O", "Q", "A", ":">>, <<"n", "o", "q", "a">>,
   <<"t", "y", "p", "e", ":">>, <<"p", "y", "l", "i", "n", "t", ":">>,
   <<"f", "l", "a", "k", "e", "8", ":">>,
   <<HASH>> \o CODING \o <<":">> \o LATIN \o <<LF>>}

InitKeep == InitWith(KeepFrags, {"DEFAULT"})

\* sources with bytes that are not UTF-8 and with encoding declarations
EncFrags ==
  {<<"x">>, <<" ">>, <<LF>>, <<HASH>>, <<BAD80>>, <<QUOTE, QUOTE, QUOTE>>,
   CODING \o <<":">>, LATIN,
   <<HASH>> \o CODING \o <<":">> \o LATIN \o <<LF>>}

InitEnc == InitWith(EncFrags, KeepPatterns)

\* sources with a form feed and a carriage return, in code and in literals
CtlFrags ==
  {<<"x">>, <<" ">>, <<LF>>, <<HASH>>, <<QUOTE>>, <<"\f">>, <<"\r">>,
   <<QUOTE, QUOTE, QUOTE>>}

InitCtl == InitWith(CtlFrags, {"None"})

\* sources with backslash continuations and comment-only lines
ContFrags ==
  {<<"x">>, <<" ">>, <<LF>>, <<HASH>>, <<BSL, LF>>, <<HASH, LF>>, <<"x", LF>>}

InitCont == InitWith(ContFrags, {"None"})

\* if not source_bytes: return b""
ReturnEmpty ==
  /\ pc = "start"
  /\ source_bytes = <<>>
  /\ pc' = "done"
  /\ cleaned_bytes' = <<>>
  /\ UNCHANGED <<source_bytes, keep_pattern, remove_empty_lines, tokens, result_tokens,
                 intermediate_bytes, exc, raised, calls>>
  /\ UNCHANGED notStripVars

\* g = tokenize.tokenize(source_buffer.readline), consumed by the for loop
Lex ==
  /\ pc = "start"
  /\ source_bytes # <<>>
  /\ LET r == Tokenize(source_bytes) IN
     /\ tokens' = r.toks
     /\ exc' = r.exc
     /\ pc' = IF r.exc = "" THEN "lexed" ELSE "except"
  /\ UNCHANGED <<source_bytes, keep_pattern, remove_empty_lines, result_tokens,
                 intermediate_bytes, cleaned_bytes, raised, calls>>
  /\ UNCHANGED notStripVars

\* the body of the for loop: drop the comments the pattern does not keep
Filter ==
  /\ pc = "lexed"
  /\ result_tokens' = FilterTokens(tokens, keep_pattern)
  /\ pc' = "filtered"
  /\ UNCHANGED <<source_bytes, keep_pattern, remove_empty_lines, tokens,
                 intermediate_bytes, cleaned_bytes, exc, raised, calls>>
  /\ UNCHANGED notStripVars

\* intermediate_bytes = b"" if not result_tokens else untokenize(result_tokens)
UntokenizeTokens ==
  /\ pc = "filtered"
  /\ LET r == IF result_tokens = <<>> THEN [exc |-> "", bytes |-> <<>>]
              ELSE Untokenize(result_tokens) IN
     /\ intermediate_bytes' = r.bytes
     /\ exc' = r.exc
     /\ pc' = IF r.exc = "" THEN "untokenized" ELSE "except"
  /\ UNCHANGED <<source_bytes, keep_pattern, remove_empty_lines, tokens, result_tokens,
                 cleaned_bytes, raised, calls>>
  /\ UNCHANGED notStripVars

\* decode, split, trim, join, encode, return cleaned_bytes
Normalize ==
  /\ pc = "untokenized"
  /\ LET r == PostProcess(intermediate_bytes, remove_empty_lines) IN
     /\ cleaned_bytes' = r.bytes
     /\ exc' = r.exc
     /\ pc' = IF r.exc = "" THEN "done" ELSE "except"
  /\ UNCHANGED <<source_bytes, keep_pattern, remove_empty_lines, tokens, result_tokens,
                 intermediate_bytes, raised, calls>>
  /\ UNCHANGED notStripVars

\* except (tokenize.TokenError, UnicodeDecodeError): raise tokenize.TokenError
\* except Exception: raise
Except ==
  /\ pc = "except"
  /\ raised' = IF exc \in {"TokenError", "UnicodeDecodeError"} THEN "TokenError" ELSE exc
  /\ pc' = "raised"
  /\ UNCHANGED <<source_bytes, keep_pattern, remove_empty_lines, tokens, result_tokens,
                 intermediate_bytes, cleaned_bytes, exc, calls>>
  /\ UNCHANGED notStripVars

\* the caller strips the returned bytes again, with the same arguments
Restrip ==
  /\ pc = "done"
  /\ calls < MaxCalls
  /\ source_bytes' = cleaned_bytes
  /\ calls' = calls + 1
  /\ pc' = "start"
  /\ tokens' = <<>>
  /\ result_tokens' = <<>>
  /\ intermediate_bytes' = <<>>
  /\ cleaned_bytes' = <<>>
  /\ UNCHANGED <<keep_pattern, remove_empty_lines, exc, raised>>
  /\ UNCHANGED notStripVars

Next ==
  \/ ReturnEmpty
  \/ Lex
  \/ Filter
  \/ UntokenizeTokens
  \/ Normalize
  \/ Except
  \/ Restrip

Spec == Init /\ [][Next]_vars

SpecKeep == InitKeep /\ [][Next]_vars

SpecEnc == InitEnc /\ [][Next]_vars

SpecCtl == InitCtl /\ [][Next]_vars

SpecCont == InitCont /\ [][Next]_vars

\* ---------------------------------------------------- strip as a function
\* the exception that leaves strip when e is raised inside its try block
Reraised(e) == IF e \in {"TokenError", "UnicodeDecodeError"} THEN "TokenError" ELSE e

\* F applied to value, value computed once
Then(value, F(_)) == CHOOSE r \in {F(v) : v \in {value}} : TRUE

\* CommentStripper.strip(source, kp, rel): [raised, bytes]
strip(source, kp, rel) ==
  LET failed(e) == [raised |-> Reraised(e), bytes |-> <<>>]
      normalize(rebuilt) ==
        IF rebuilt.exc # "" THEN failed(rebuilt.exc)
        ELSE Then(PostProcess(rebuilt.bytes, rel),
                  LAMBDA final : IF final.exc # "" THEN failed(final.exc)
                                 ELSE [raised |-> "", bytes |-> final.bytes])
      untokenize(kept) ==
        IF kept = <<>> THEN normalize([exc |-> "", bytes |-> <<>>])
        ELSE Then(Untokenize(kept), normalize)
      filter(lexed) ==
        IF lexed.exc # "" THEN failed(lexed.exc)
        ELSE Then(FilterTokens(lexed.toks, kp), untokenize) IN
  IF source = <<>> THEN [raised |-> "", bytes |-> <<>>]
  ELSE Then(Tokenize(source), filter)

\* -------------------------------------------------------------------- CLI
\* the names of the algorithms whose opener is available, in table order
AvailableAlgos ==
  {COMPRESSION_ALGORITHMS_DATA[i].name : i \in
     {j \in DOMAIN COMPRESSION_ALGORITHMS_DATA : COMPRESSION_ALGORITHMS_DATA[j].opener}}

\* default of --algorithm in _create_parser
CurrentDefault ==
  IF AvailableAlgos = {} THEN "None"
  ELSE IF DEFAULT_COMPRESSION \in AvailableAlgos THEN DEFAULT_COMPRESSION
  ELSE get_default_compression(COMPRESSION_ALGORITHMS_DATA, "None")

\* parse_args fails: no path, or an algorithm outside choices
ArgumentErrorIn(a) ==
  \/ a.paths = <<>>
  \/ AvailableAlgos # {} /\ a.algorithm # "None" /\ a.algorithm \notin AvailableAlgos

\* args.algorithm after parsing
ParsedAlgorithm(a) == IF a.algorithm = "None" THEN CurrentDefault ELSE a.algorithm

\* _validate_output_dir: [exit, output_dir, disk]
ValidateOutputDir(fs, unresolvable, a) ==
  IF a.output_dir = NonePath \/ a.in_place
  THEN [exit |-> FALSE, output_dir |-> NonePath, disk |-> fs]
  ELSE IF \/ a.output_dir \in unresolvable
          \/ \E d \in Ancestors(a.output_dir) : IsFile(fs, d)
  THEN [exit |-> TRUE, output_dir |-> NonePath, disk |-> fs]
  ELSE [exit |-> FALSE, output_dir |-> a.output_dir,
        disk |-> [fs EXCEPT !.dirs = @ \cup Ancestors(a.output_dir)]]

\* _validate_compression
ValidateCompression(a) ==
  ~(a.compress /\ a.algorithm = "None")
  /\ ~(a.compress /\ ~is_compression_available(a.algorithm, COMPRESSION_ALGORITHMS_DATA))

\* os.getcwd(): a directory that holds none of the inputs
Cwd == <<<<"w">>>>

\* _determine_base_path
DetermineBasePath(fs, unresolvable, files) ==
  IF files = <<>> THEN Cwd
  ELSE IF \E i \in DOMAIN files : files[i] \in unresolvable THEN Cwd
  ELSE IF IsFile(fs, CommonPath(files)) THEN PathParent(CommonPath(files))
  ELSE CommonPath(files)

\* mutant: every file goes directly under the output directory
GetOutputDestination_Flat(unresolvable, file_path, settings) ==
  LET algo_settings == get_compression_settings(settings.algo, COMPRESSION_ALGORITHMS_DATA)
      none == [base |-> NonePath, log |-> NonePath]
      valid == algo_settings.extension # <<>> IN
  IF file_path \in unresolvable THEN none
  ELSE IF settings.in_place
  THEN IF settings.compress
       THEN IF ~valid THEN none
            ELSE LET new_path == WithSuffix(file_path,
                                            PathSuffix(file_path) \o algo_settings.extension) IN
                 [base |-> new_path, log |-> new_path]
       ELSE [base |-> file_path, log |-> file_path]
  ELSE IF settings.output_dir # NonePath
  THEN LET base_output_path == settings.output_dir \o <<PathName(file_path)>> IN
       IF settings.compress
       THEN IF ~valid THEN none
            ELSE [base |-> base_output_path,
                  log |-> WithSuffix(base_output_path,
                                     PathSuffix(base_output_path) \o algo_settings.extension)]
       ELSE [base |-> base_output_path, log |-> base_output_path]
  ELSE none

\* mutant: --in-place names the file's own path whether or not --compress
\* is given
GetOutputDestination_OwnPath(unresolvable, file_path, settings) ==
  LET none == [base |-> NonePath, log |-> NonePath] IN
  IF file_path \in unresolvable THEN none
  ELSE IF settings.in_place THEN [base |-> file_path, log |-> file_path]
  ELSE IF settings.output_dir # NonePath
  THEN LET relative_path == IF IsPrefixPath(settings.base_common_path, file_path)
                            THEN RelativeTo(file_path, settings.base_common_path)
                            ELSE <<PathName(file_path)>>
           base_output_path == settings.output_dir \o relative_path IN
       [base |-> base_output_path, log |-> base_output_path]
  ELSE none

\* _get_output_destination: [base, log], both None when nothing is chosen
GetOutputDestination(unresolvable, file_path, settings) ==
  LET algo_settings == get_compression_settings(settings.algo, COMPRESSION_ALGORITHMS_DATA)
      none == [base |-> NonePath, log |-> NonePath]
      valid == algo_settings.extension # <<>> IN
  IF file_path \in unresolvable THEN none
  ELSE IF settings.in_place
  THEN IF settings.compress
       THEN IF ~valid THEN none
            ELSE LET new_path == WithSuffix(file_path,
                                            PathSuffix(file_path) \o algo_settings.extension) IN
                 [base |-> new_path, log |-> new_path]
       ELSE [base |-> file_path, log |-> file_path]
  ELSE IF settings.output_dir # NonePath
  THEN LET relative_path == IF IsPrefixPath(settings.base_common_path, file_path)
                            THEN RelativeTo(file_path, settings.base_common_path)
                            ELSE <<PathName(file_path)>>
           base_output_path == settings.output_dir \o relative_path IN
       IF settings.compress
       THEN IF ~valid THEN none
            ELSE [base |-> base_output_path,
                  log |-> WithSuffix(base_output_path,
                                     PathSuffix(base_output_path) \o algo_settings.extension)]
       ELSE [base |-> base_output_path, log |-> base_output_path]
  ELSE none

\* FileProcessor._read_file: [exc, bytes]
ReadFileBytes(fs, unreadable, path) ==
  IF IsDir(fs, path) THEN [exc |-> "IsADirectoryError", bytes |-> <<>>]
  ELSE IF ~IsFile(fs, path) THEN [exc |-> "FileNotFoundError", bytes |-> <<>>]
  ELSE IF path \in unreadable THEN [exc |-> "PermissionError", bytes |-> <<>>]
  ELSE [exc |-> "", bytes |-> fs.files[path]]

Event(op, path) == [op |-> op, path |-> path]

\* the files and directories command lines are run on
DirP == <<<<"p">>>>

DirO == <<<<"o">>>>

FileA == Append(DirP, <<"a", ".", "p", "y">>)

FileB == Append(DirP, <<"b", ".", "p", "y">>)

FileT == Append(DirP, <<"c", ".", "t", "x", "t">>)

FileMissing == Append(DirP, <<"z", ".", "p", "y">>)

\* p/s, a directory below p
DirS == Append(DirP, <<"s">>)

\* p/s/a.py
FileSA == Append(DirS, <<"a", ".", "p", "y">>)

\* contents: clean code, code with a comment, an unterminated literal, a
\* byte that is not UTF-8
CleanSource == <<"x", LF>>

CommentedSource == <<"x", " ", HASH, "x", LF>>

OpenLiteralSource == <<QUOTE, QUOTE, QUOTE>>

BadByteSource == <<BAD80>>

CliDisks ==
  {[files |-> cs, dirs |-> {DirP}] :
     cs \in {(FileA :> a) @@ (FileT :> CleanSource) : a \in
               {CleanSource, CommentedSource, OpenLiteralSource, BadByteSource}}
            \cup
            {(FileA :> a) @@ (FileB :> b) @@ (FileT :> CleanSource) :
               a \in {CommentedSource, OpenLiteralSource},
               b \in {CommentedSource, OpenLiteralSource}}}
  \cup
  {[files |-> (FileA :> CommentedSource) @@ (FileSA :> CommentedSource),
    dirs |-> {DirP, DirS}]}

CliArgvs ==
  [paths : {<<>>, <<DirP>>, <<FileA>>, <<FileA, FileB>>, <<FileT>>, <<FileMissing, FileA>>},
   in_place : BOOLEAN,
   output_dir : {NonePath, DirO, DirP, FileT},
   compress : BOOLEAN,
   algorithm : {"None", "bz2", "zstd"}]

\* every path a run can write file a.py to
TargetsOfA ==
  {Append(d, <<"a", ".", "p", "y">> \o e) : d \in {DirP, DirO}, e \in {<<>>, GZ, BZ2}}

InitCli ==
  /\ disk \in CliDisks
  /\ argv \in CliArgvs
  /\ no_resolve \in {{}, {FileB}}
  /\ no_read \in {{}, {FileA}}
  /\ no_write \in {{}, TargetsOfA}
  /\ stdout = <<>>
  /\ cli_pc = "parse"
  /\ output_dir = NonePath
  /\ compression_algo = "None"
  /\ input_files = <<>>
  /\ base_common_path = <<>>
  /\ success_count = 0
  /\ fail_count = 0
  /\ exit_code = 0 - 1
  /\ file_idx = 0
  /\ job = NoJob
  /\ events = <<>>
  /\ StripIdle /\ ConfigIdle /\ GatherIdle /\ WriterIdle /\ FramesIdle

notCliVars == <<stripVars, configVars, gatherVars, writerVars, frames>>

\* CLI.run: parse_args raises ArgumentError, sys.exit(2)
ParseError ==
  /\ cli_pc = "parse"
  /\ ArgumentErrorIn(argv)
  /\ exit_code' = 2
  /\ cli_pc' = "exited"
  /\ UNCHANGED <<argv, output_dir, compression_algo, input_files, base_common_path,
                 success_count, fail_count, file_idx, job, events>>
  /\ UNCHANGED <<envVars, notCliVars>>

\* CLI.run: parse_args returns, CLIRunner(parsed_args)
ParseArgs ==
  /\ cli_pc = "parse"
  /\ ~ArgumentErrorIn(argv)
  /\ argv' = [argv EXCEPT !.algorithm = ParsedAlgorithm(argv)]
  /\ cli_pc' = "setup"
  /\ UNCHANGED <<output_dir, compression_algo, input_files, base_common_path,
                 success_count, fail_count, exit_code, file_idx, job, events>>
  /\ UNCHANGED <<envVars, notCliVars>>

\* mutant: set-up without _validate_compression
SetupAndValidate_NoCompressionCheck ==
  /\ cli_pc = "setup"
  /\ LET out == ValidateOutputDir(disk, no_resolve, argv)
         algo == argv.algorithm
         files == gather_python_files(out.disk, no_resolve, argv.paths)
         ok == ~out.exit /\ files # <<>> IN
     /\ disk' = out.disk
     /\ output_dir' = out.output_dir
     /\ compression_algo' = IF out.exit THEN compression_algo ELSE algo
     /\ input_files' = IF ~out.exit THEN files ELSE <<>>
     /\ base_common_path' = IF ok THEN DetermineBasePath(out.disk, no_resolve, files)
                            ELSE base_common_path
     /\ cli_pc' = IF ok THEN "loop" ELSE "exited"
     /\ exit_code' = IF ok THEN exit_code ELSE 1
     /\ file_idx' = IF ok THEN 1 ELSE file_idx
  /\ UNCHANGED <<argv, success_count, fail_count, job, events>>
  /\ UNCHANGED <<no_resolve, no_read, no_write, stdout, notCliVars>>

\* CLIRunner.setup_and_validate as CLIRunner.run calls it: sys.exit(1) inside
\* _validate_output_dir, or "return 1" when it returns False
SetupAndValidate ==
  /\ cli_pc = "setup"
  /\ LET out == ValidateOutputDir(disk, no_resolve, argv)
         algo == argv.algorithm
         files == gather_python_files(out.disk, no_resolve, argv.paths)
         ok == ~out.exit /\ ValidateCompression(argv) /\ files # <<>> IN
     /\ disk' = out.disk
     /\ output_dir' = out.output_dir
     /\ compression_algo' = IF out.exit THEN compression_algo ELSE algo
     /\ input_files' = IF ~out.exit /\ ValidateCompression(argv) THEN files ELSE <<>>
     /\ base_common_path' = IF ok THEN DetermineBasePath(out.disk, no_resolve, files)
                            ELSE base_common_path
     /\ cli_pc' = IF ok THEN "loop" ELSE "exited"
     /\ exit_code' = IF ok THEN exit_code ELSE 1
     /\ file_idx' = IF ok THEN 1 ELSE file_idx
  /\ UNCHANGED <<argv, success_count, fail_count, job, events>>
  /\ UNCHANGED <<no_resolve, no_read, no_write, stdout, notCliVars>>

OutputSettings ==
  [in_place |-> argv.in_place, output_dir |-> output_dir, compress |-> argv.compress,
   algo |-> compression_algo, base_common_path |-> base_common_path]

\* _process_single_file up to the construction of the FileProcessor:
\* the destination, the early "return False", the FileWriter
BeginFile ==
  /\ cli_pc = "loop"
  /\ file_idx <= Len(input_files)
  /\ LET file_path == input_files[file_idx]
         dest == GetOutputDestination(no_resolve, file_path, OutputSettings)
         skipped == /\ dest.base = NonePath
                    /\ dest.log = NonePath
                    /\ ~(argv.in_place \/ output_dir = NonePath)
         comp_settings == get_compression_settings(compression_algo,
                                                   COMPRESSION_ALGORITHMS_DATA)
         failure == FileWriterInit(argv.compress, compression_algo, comp_settings) IN
     /\ job' = [file_path |-> file_path, output_dest |-> dest.base,
                effective_log_path |-> dest.log, source_bytes |-> <<>>,
                cleaned_bytes |-> <<>>, exc |-> IF skipped THEN "" ELSE failure]
     /\ events' = Append(events, Event("begin", file_path))
     /\ cli_pc' = IF skipped THEN "false" ELSE IF failure # "" THEN "except" ELSE "read"
  /\ UNCHANGED <<argv, output_dir, compression_algo, input_files, base_common_path,
                 success_count, fail_count, exit_code, file_idx>>
  /\ UNCHANGED <<envVars, notCliVars>>

\* FileProcessor.process: source_bytes = self._read_file()
ReadFile ==
  /\ cli_pc = "read"
  /\ LET r == ReadFileBytes(disk, no_read, job.file_path) IN
     /\ job' = [job EXCEPT !.source_bytes = r.bytes, !.exc = r.exc]
     /\ cli_pc' = IF r.exc = "" THEN "strip" ELSE "except"
  /\ events' = Append(events, Event("read", job.file_path))
  /\ UNCHANGED <<argv, output_dir, compression_algo, input_files, base_common_path,
                 success_count, fail_count, exit_code, file_idx>>
  /\ UNCHANGED <<envVars, notCliVars>>

\* mutant: the error of strip is swallowed and the write goes on
StripFile_GoOn ==
  /\ cli_pc = "strip"
  /\ LET r == strip(job.source_bytes, "DEFAULT", TRUE) IN
     /\ job' = [job EXCEPT !.cleaned_bytes = r.bytes, !.exc = r.raised]
     /\ cli_pc' = "write"
  /\ events' = Append(events, Event("strip", job.file_path))
  /\ UNCHANGED <<argv, output_dir, compression_algo, input_files, base_common_path,
                 success_count, fail_count, exit_code, file_idx>>
  /\ UNCHANGED <<envVars, notCliVars>>

\* FileProcessor.process: cleaned_bytes = CommentStripper.strip(source_bytes)
StripFile ==
  /\ cli_pc = "strip"
  /\ LET r == strip(job.source_bytes, "DEFAULT", TRUE) IN
     /\ job' = [job EXCEPT !.cleaned_bytes = r.bytes, !.exc = r.raised]
     /\ cli_pc' = IF r.raised = "" THEN "write" ELSE "except"
  /\ events' = Append(events, Event("strip", job.file_path))
  /\ UNCHANGED <<argv, output_dir, compression_algo, input_files, base_common_path,
                 success_count, fail_count, exit_code, file_idx>>
  /\ UNCHANGED <<envVars, notCliVars>>

\* the FileWriter _process_single_file builds
JobWriter ==
  [compress |-> argv.compress, compression_algo |-> compression_algo,
   compression_settings |-> get_compression_settings(compression_algo,
                                                     COMPRESSION_ALGORITHMS_DATA)]

\* FileProcessor.process: self.writer.write(cleaned_bytes, output_path)
WriteFile ==
  /\ cli_pc = "write"
  /\ LET r == FileWriterWrite(disk, no_write, JobWriter, job.cleaned_bytes, job.output_dest) IN
     /\ disk' = r.fs
     /\ stdout' = stdout \o r.out
     /\ job' = [job EXCEPT !.exc = r.exc]
     /\ cli_pc' = IF r.exc = "" THEN "written" ELSE "except"
  /\ events' = Append(events, Event("write", EffectiveTargetPath(JobWriter, job.output_dest)))
  /\ UNCHANGED <<argv, output_dir, compression_algo, input_files, base_common_path,
                 success_count, fail_count, exit_code, file_idx>>
  /\ UNCHANGED <<no_resolve, no_read, no_write, notCliVars>>

\* _remove_original_if_compressed_inplace unlinks original_path
Unlinks(fs, unresolvable, original_path, compressed_path) ==
  /\ original_path \notin unresolvable
  /\ compressed_path \notin unresolvable
  /\ Exists(fs, original_path)
  /\ original_path # compressed_path

\* _process_single_file after process returned: the removal of the original
\* under --in-place --compress, "return True", and the count in CLIRunner.run
FileSucceeded ==
  /\ cli_pc = "written"
  /\ LET cleanup == argv.in_place /\ argv.compress /\ job.effective_log_path # NonePath
         unlink == cleanup /\ Unlinks(disk, no_resolve, job.file_path, job.effective_log_path) IN
     /\ disk' = IF unlink THEN [disk EXCEPT !.files = Drop(@, job.file_path)] ELSE disk
     /\ events' = IF unlink THEN Append(events, Event("unlink", job.file_path)) ELSE events
  /\ success_count' = success_count + 1
  /\ file_idx' = file_idx + 1
  /\ cli_pc' = "loop"
  /\ UNCHANGED <<argv, output_dir, compression_algo, input_files, base_common_path,
                 fail_count, exit_code, job>>
  /\ UNCHANGED <<no_resolve, no_read, no_write, stdout, notCliVars>>

\* mutant: a failed file is removed under --in-place --compress
FileFailed_Unlink ==
  /\ cli_pc \in {"false", "except"}
  /\ disk' = IF argv.in_place /\ argv.compress
             THEN [disk EXCEPT !.files = Drop(@, job.file_path)] ELSE disk
  /\ fail_count' = fail_count + 1
  /\ file_idx' = file_idx + 1
  /\ cli_pc' = "loop"
  /\ UNCHANGED <<argv, output_dir, compression_algo, input_files, base_common_path,
                 success_count, exit_code, job, events>>
  /\ UNCHANGED <<no_resolve, no_read, no_write, stdout, notCliVars>>

\* mutant: the first failure ends the loop
FileFailed_Abort ==
  /\ cli_pc \in {"false", "except"}
  /\ fail_count' = fail_count + 1
  /\ file_idx' = Len(input_files) + 1
  /\ cli_pc' = "loop"
  /\ UNCHANGED <<argv, output_dir, compression_algo, input_files, base_common_path,
                 success_count, exit_code, job, events>>
  /\ UNCHANGED <<envVars, notCliVars>>

\* _process_single_file returns False (the early return, or one of the
\* except clauses), and the count in CLIRunner.run
FileFailed ==
  /\ cli_pc \in {"false", "except"}
  /\ fail_count' = fail_count + 1
  /\ file_idx' = file_idx + 1
  /\ cli_pc' = "loop"
  /\ UNCHANGED <<argv, output_dir, compression_algo, input_files, base_common_path,
                 success_count, exit_code, job, events>>
  /\ UNCHANGED <<envVars, notCliVars>>

\* mutant: "return 0" whatever fail_count is
Finish_Zero ==
  /\ cli_pc = "loop"
  /\ file_idx > Len(input_files)
  /\ exit_code' = 0
  /\ cli_pc' = "exited"
  /\ UNCHANGED <<argv, output_dir, compression_algo, input_files, base_common_path,
                 success_count, fail_count, file_idx, job, events>>
  /\ UNCHANGED <<envVars, notCliVars>>

\* CLIRunner.run: the loop is over; CLI.run: sys.exit(exit_code)
Finish ==
  /\ cli_pc = "loop"
  /\ file_idx > Len(input_files)
  /\ exit_code' = IF fail_count > 0 THEN 1 ELSE 0
  /\ cli_pc' = "exited"
  /\ UNCHANGED <<argv, output_dir, compression_algo, input_files, base_common_path,
                 success_count, fail_count, file_idx, job, events>>
  /\ UNCHANGED <<envVars, notCliVars>>

NextCli ==
  \/ ParseError
  \/ ParseArgs
  \/ SetupAndValidate
  \/ BeginFile
  \/ ReadFile
  \/ StripFile
  \/ WriteFile
  \/ FileSucceeded
  \/ FileFailed
  \/ Finish

SpecCli == InitCli /\ [][NextCli]_vars

\* CLIRunner(args).run() on a Namespace that did not pass through the
\* parser: the algorithm may be None or one that is not available
RunnerArgvs ==
  [paths : {<<DirP>>, <<FileA>>, <<FileMissing>>},
   in_place : BOOLEAN,
   output_dir : {NonePath, DirO},
   compress : BOOLEAN,
   algorithm : {"None", "gzip", "zstd"}]

InitRunner ==
  /\ disk \in CliDisks
  /\ argv \in RunnerArgvs
  /\ no_resolve \in {{}, {FileB}}
  /\ no_read \in {{}, {FileA}}
  /\ no_write \in {{}, TargetsOfA}
  /\ stdout = <<>>
  /\ cli_pc = "setup"
  /\ output_dir = NonePath
  /\ compression_algo = "None"
  /\ input_files = <<>>
  /\ base_common_path = Cwd
  /\ success_count = 0
  /\ fail_count = 0
  /\ exit_code = 0 - 1
  /\ file_idx = 0
  /\ job = NoJob
  /\ events = <<>>
  /\ StripIdle /\ ConfigIdle /\ GatherIdle /\ WriterIdle /\ FramesIdle

NextRunner ==
  \/ SetupAndValidate
  \/ BeginFile
  \/ ReadFile
  \/ StripFile
  \/ WriteFile
  \/ FileSucceeded
  \/ FileFailed
  \/ Finish

SpecRunner == InitRunner /\ [][NextRunner]_vars

\* ---------------------------------------------------- PathResolver calls
\* the longest list of input paths one call is given
MaxTargets == 2

\* p/.py: a file whose whole name is ".py"
FileDotPy == Append(DirP, PY)

\* p/*
GlobP == Append(DirP, <<"*">>)

GatherDisks ==
  {[files |-> [q \in qs |-> CleanSource], dirs |-> {DirP, DirS}] :
     qs \in SUBSET {FileA, FileB, FileT, FileDotPy, FileSA}}

GatherTargets == {DirP, DirS, FileA, FileB, FileT, FileDotPy, FileMissing, GlobP}

GatherInputs == UNION {[1..n -> GatherTargets] : n \in 0..MaxTargets}

notGatherVars == <<stripVars, no_read, no_write, stdout, configVars, writerVars, cliVars, frames>>

InitGather ==
  /\ disk \in GatherDisks
  /\ no_resolve \in {{}, {FileA}, {DirP}}
  /\ no_read = {}
  /\ no_write = {}
  /\ stdout = <<>>
  /\ gather_paths \in GatherInputs
  /\ sorted_files = <<>>
  /\ gather_pc = "call"
  /\ StripIdle /\ ConfigIdle /\ WriterIdle /\ CliIdle /\ FramesIdle

\* PathResolver.gather_python_files(paths) runs and returns sorted_files
Gather ==
  /\ gather_pc = "call"
  /\ sorted_files' = gather_python_files(disk, no_resolve, gather_paths)
  /\ gather_pc' = "returned"
  /\ UNCHANGED <<disk, no_resolve, gather_paths, notGatherVars>>

NextGather == Gather

SpecGather == InitGather /\ [][NextGather]_vars

\* ------------------------------------------------------- FileWriter calls
\* p/a.py.gz, p/.gz, p/a. and p/a
FileAGz == Append(DirP, <<"a", ".", "p", "y">> \o GZ)

FileDotGz == Append(DirP, GZ)

FileADot == Append(DirP, <<"a", ".">>)

FileBare == Append(DirP, <<"a">>)

\* o/a.py: under a directory that does not exist yet
FileOA == Append(DirO, <<"a", ".", "p", "y">>)

WriterTargets == {NonePath, FileA, FileAGz, FileDotGz, FileADot, FileBare, FileOA}

\* the target is absent, present, or its compressed name is taken by a
\* file or by a directory
WriterDisks ==
  {[files |-> <<>>, dirs |-> {DirP}],
   [files |-> (FileA :> CleanSource), dirs |-> {DirP}],
   [files |-> (FileA :> CleanSource) @@ (FileAGz :> CleanSource), dirs |-> {DirP}],
   [files |-> (FileA :> CleanSource), dirs |-> {DirP, FileAGz}],
   [files |-> (DirO :> CleanSource), dirs |-> {DirP}]}

\* the arguments of FileWriter(...): the settings are those of some
\* algorithm, or None
Writers ==
  [compress : BOOLEAN,
   compression_algo : {"None", "gzip", "bz2"},
   compression_settings : {get_compression_settings(a, COMPRESSION_ALGORITHMS_DATA) :
                             a \in {"None", "gzip", "bz2"}}]

notWriterVars == <<stripVars, no_resolve, no_read, configVars, gatherVars, cliVars, frames>>

InitWriter ==
  /\ disk \in WriterDisks
  /\ no_write \in {{}, {FileAGz}}
  /\ no_resolve = {}
  /\ no_read = {}
  /\ stdout = <<>>
  /\ writer \in Writers
  /\ write_args \in [data : {<<>>, CleanSource}, target_path : WriterTargets]
  /\ write_exc = ""
  /\ writer_pc = "new"
  /\ StripIdle /\ ConfigIdle /\ GatherIdle /\ CliIdle /\ FramesIdle

\* FileWriter.__init__
Construct ==
  /\ writer_pc = "new"
  /\ write_exc' = FileWriterInit(writer.compress, writer.compression_algo,
                                 writer.compression_settings)
  /\ writer_pc' = IF write_exc' = "" THEN "ready" ELSE "raised"
  /\ UNCHANGED <<writer, write_args, disk, no_write, stdout, notWriterVars>>

\* FileWriter.write(data, target_path)
Write ==
  /\ writer_pc = "ready"
  /\ LET r == FileWriterWrite(disk, no_write, writer, write_args.data, write_args.target_path) IN
     /\ disk' = r.fs
     /\ stdout' = stdout \o r.out
     /\ write_exc' = r.exc
     /\ writer_pc' = IF r.exc = "" THEN "written" ELSE "raised"
  /\ UNCHANGED <<writer, write_args, no_write, notWriterVars>>

NextWriter ==
  \/ Construct
  \/ Write

SpecWriter == InitWriter /\ [][NextWriter]_vars

\* ---------------------------------------------- get_default_compression calls
\* an algorithm is missing from the table, listed without an opener (its
\* module is not installed), or listed with one
EntryStates == {"absent", "closed", "open"}

TableOrders == {<<"gzip", "bz2", "lzma">>, <<"lzma", "bz2", "gzip">>}

IsListed(e) == e.listed

\* the table with the algorithms in this order and these states
TableOf(order, st) ==
  LET all == [i \in DOMAIN order |->
                [name |-> order[i], opener |-> st[i] = "open",
                 extension |-> AlgoEntry(COMPRESSION_ALGORITHMS_DATA, order[i]).extension,
                 listed |-> st[i] # "absent"]]
      kept == SelectSeq(all, IsListed) IN
  [i \in DOMAIN kept |-> [name |-> kept[i].name, opener |-> kept[i].opener,
                          extension |-> kept[i].extension]]

Tables == {TableOf(order, st) : order \in TableOrders, st \in [1..3 -> EntryStates]}

notConfigVars == <<stripVars, envVars, gatherVars, writerVars, cliVars, frames>>

InitConfig ==
  /\ algorithms \in Tables
  /\ initial_default \in {"gzip", "bz2", "lzma", "zstd"}
  /\ default_algo = "None"
  /\ config_pc = "call"
  /\ StripIdle /\ EnvIdle /\ GatherIdle /\ WriterIdle /\ CliIdle /\ FramesIdle

\* get_default_compression(algorithms, initial_default) runs and returns
GetDefault ==
  /\ config_pc = "call"
  /\ default_algo' = get_default_compression(algorithms, initial_default)
  /\ config_pc' = "returned"
  /\ UNCHANGED <<algorithms, initial_default, notConfigVars>>

NextConfig == GetDefault

SpecConfig == InitConfig /\ [][NextConfig]_vars

\* ------------------------------------------------------ concurrent calls
\* the number of calls of strip in progress at once
MaxThreads == 2

BlankThenCode == <<" ", LF, "x", " ", HASH, LF>>

\* the arguments of one call
FrameArgs ==
  [source_bytes : {<<>>, CommentedSource, OpenLiteralSource, BlankThenCode},
   keep_pattern : {"None"},
   remove_empty_lines : BOOLEAN]

\* the frame of a call that has just been entered: its arguments and locals
NewFrame(args) ==
  [source_bytes |-> args.source_bytes, keep_pattern |-> args.keep_pattern,
   remove_empty_lines |-> args.remove_empty_lines, pc |-> "start",
   tokens |-> <<>>, result_tokens |-> <<>>, intermediate_bytes |-> <<>>,
   cleaned_bytes |-> <<>>, exc |-> "", raised |-> ""]

notFrameVars == <<stripVars, envVars, configVars, gatherVars, writerVars, cliVars>>

InitFrames ==
  /\ frames \in [1..MaxThreads -> {NewFrame(a) : a \in FrameArgs}]
  /\ StripIdle /\ EnvIdle /\ ConfigIdle /\ GatherIdle /\ WriterIdle /\ CliIdle

\* call t: if not source_bytes: return b""
FrameReturnEmpty(t) ==
  /\ frames[t].pc = "start"
  /\ frames[t].source_bytes = <<>>
  /\ frames' = [frames EXCEPT ![t].pc = "done", ![t].cleaned_bytes = <<>>]
  /\ UNCHANGED notFrameVars

\* call t: g = tokenize.tokenize(source_buffer.readline)
FrameLex(t) ==
  /\ frames[t].pc = "start"
  /\ frames[t].source_bytes # <<>>
  /\ LET r == Tokenize(frames[t].source_bytes) IN
     frames' = [frames EXCEPT ![t].tokens = r.toks, ![t].exc = r.exc,
                              ![t].pc = IF r.exc = "" THEN "lexed" ELSE "except"]
  /\ UNCHANGED notFrameVars

\* mutant: result_tokens is one list shared by the calls in progress
FrameFilter_Shared(t) ==
  /\ frames[t].pc = "lexed"
  /\ LET shared == FilterTokens(frames[t].tokens, frames[t].keep_pattern) IN
     frames' = [u \in DOMAIN frames |->
                  IF u = t THEN [frames[u] EXCEPT !.result_tokens = shared, !.pc = "filtered"]
                  ELSE [frames[u] EXCEPT !.result_tokens = shared]]
  /\ UNCHANGED notFrameVars

\* call t: the for loop filling its own result_tokens
FrameFilter(t) ==
  /\ frames[t].pc = "lexed"
  /\ frames' = [frames EXCEPT
                  ![t].result_tokens = FilterTokens(frames[t].tokens, frames[t].keep_pattern),
                  ![t].pc = "filtered"]
  /\ UNCHANGED notFrameVars

\* call t: intermediate_bytes = b"" if not result_tokens else untokenize(...)
FrameUntokenize(t) ==
  /\ frames[t].pc = "filtered"
  /\ LET r == IF frames[t].result_tokens = <<>> THEN [exc |-> "", bytes |-> <<>>]
              ELSE Untokenize(frames[t].result_tokens) IN
     frames' = [frames EXCEPT ![t].intermediate_bytes = r.bytes, ![t].exc = r.exc,
                              ![t].pc = IF r.exc = "" THEN "untokenized" ELSE "except"]
  /\ UNCHANGED notFrameVars

\* call t: decode, split, trim, join, encode, return cleaned_bytes
FrameNormalize(t) ==
  /\ frames[t].pc = "untokenized"
  /\ LET r == PostProcess(frames[t].intermediate_bytes, frames[t].remove_empty_lines) IN
     frames' = [frames EXCEPT ![t].cleaned_bytes = r.bytes, ![t].exc = r.exc,
                              ![t].pc = IF r.exc = "" THEN "done" ELSE "except"]
  /\ UNCHANGED notFrameVars

\* call t: the except clauses
FrameExcept(t) ==
  /\ frames[t].pc = "except"
  /\ frames' = [frames EXCEPT ![t].raised = Reraised(frames[t].exc), ![t].pc = "raised"]
  /\ UNCHANGED notFrameVars

\* the scheduler runs one step of any call in progress
NextFrames ==
  \/ \E t \in DOMAIN frames : FrameReturnEmpty(t)
  \/ \E t \in DOMAIN frames : FrameLex(t)
  \/ \E t \in DOMAIN frames : FrameFilter(t)
  \/ \E t \in DOMAIN frames : FrameUntokenize(t)
  \/ \E t \in DOMAIN frames : FrameNormalize(t)
  \/ \E t \in DOMAIN frames : FrameExcept(t)

SpecFrames == InitFrames /\ [][NextFrames]_vars


\* ================================================================ claims
Returned == pc = "done" /\ source_bytes # <<>>

IsComment(t) == t.type = "COMMENT"

IsKept(t) == KeepMatch(keep_pattern, t.string)

RECURSIVE SumSeq(_)
SumSeq(ns) == IF ns = <<>> THEN 0 ELSE Head(ns) + SumSeq(Tail(ns))

\* occurrences of the character c in the strings of the tokens Keep accepts
CountInTokens(toks, c, Keep(_)) ==
  SumSeq([i \in 1..Len(toks) |->
            IF Keep(toks[i]) THEN CountChar(toks[i].string, c) ELSE 0])

\* position (r1, c1) is at or before (r2, c2)
PosLE(r1, c1, r2, c2) == r1 < r2 \/ (r1 = r2 /\ c1 <= c2)

\* token c starts inside the span of token t
StartsInside(c, t) ==
  /\ PosLE(t.srow, t.scol, c.srow, c.scol)
  /\ ~PosLE(t.erow, t.ecol, c.srow, c.scol)

\* C1: strip is idempotent: a second call on the bytes a call returned, with
\* the same keep_pattern and remove_empty_lines, returns the same bytes.
C1_Idempotent ==
  (calls >= 2 /\ pc \in {"done", "raised"}) =>
    (pc = "done" /\ cleaned_bytes = source_bytes)

\* C2: a '#' inside a string literal is never the start of a comment token,
\* its STRING token passes the filter, and every '#' of the tokens that
\* pass the filter is in the returned bytes.
C2_HashInStringKept ==
  Returned =>
    /\ \A i \in DOMAIN tokens :
         tokens[i].type = "STRING" =>
           /\ InSeq(tokens[i], result_tokens)
           /\ \A j \in DOMAIN tokens :
                IsComment(tokens[j]) => ~StartsInside(tokens[j], tokens[i])
    /\ CountChar(cleaned_bytes, HASH)
         = CountInTokens(tokens, HASH, LAMBDA t : ~IsComment(t) \/ IsKept(t))

C2_Witness ==
  /\ Returned
  /\ keep_pattern = "None"
  /\ \E i \in DOMAIN tokens :
       /\ tokens[i].type = "STRING"
       /\ tokens[i].srow < tokens[i].erow
       /\ Contains(tokens[i].string, HASH)

\* the characters whose count the tokens determine: every character of the
\* alphabet but white space and the backslash (untokenize writes
\* continuation backslashes of its own)
CheckedChars == Letters \cup {HASH, QUOTE, ":", "(", ")", "8", U0080}

IsText(t) == t.type # "ENCODING" /\ (IsComment(t) => IsKept(t))

\* the comments the pattern rejects leave no character in the output
RemovedLeaveNothing ==
  \A c \in CheckedChars :
    CountChar(cleaned_bytes, c) = CountInTokens(tokens, c, IsText)

\* C3 as stated: a comment is in the output verbatim iff keep_pattern is
\* given and matches at its start; any other comment leaves no text.
C3_KeptVerbatim ==
  Returned =>
    /\ \A i \in DOMAIN tokens :
         (IsComment(tokens[i]) /\ IsKept(tokens[i])) =>
           IsInfix(tokens[i].string, cleaned_bytes)
    /\ RemovedLeaveNothing

\* C3 amended: the kept comment ends an output line with the white space at
\* its end trimmed (for a comment without a line-boundary character).
C3_KeptTrimmed ==
  Returned =>
    /\ \A i \in DOMAIN tokens :
         (/\ IsComment(tokens[i])
          /\ IsKept(tokens[i])
          /\ \A k \in DOMAIN tokens[i].string : ~IsLineBoundary(tokens[i].string[k])) =>
           IsInfix(RStrip(tokens[i].string) \o <<LF>>, cleaned_bytes)
    /\ RemovedLeaveNothing

C3_Witness ==
  /\ Returned
  /\ \E i, j \in DOMAIN tokens :
       /\ IsComment(tokens[i]) /\ IsKept(tokens[i])
       /\ IsComment(tokens[j]) /\ ~IsKept(tokens[j])

\* the directive keywords C4 lists
C4_Directives ==
  {<<"p", "y", "l", "i", "n", "t", ":">>, <<"f", "l", "a", "k", "e", "8", ":">>,
   <<"t", "y", "p", "e", ":">>, <<"n", "o", "q", "a", ":">>}

SameIgnoringCase(a, b) ==
  Len(a) = Len(b) /\ \A i \in 1..Len(a) : Lower(a[i]) = Lower(b[i])

\* '#', n white-space characters, then a directive keyword in any case
C4_IsDirective(string) ==
  \E n \in 0..Len(string) : \E kw \in C4_Directives :
    /\ Len(string) >= 1 + n + Len(kw)
    /\ string[1] = HASH
    /\ \A i \in 2..(n + 1) : IsStripChar(string[i])
    /\ SameIgnoringCase(SubSeq(string, n + 2, n + 1 + Len(kw)), kw)

\* C4: with the default pattern the filter keeps exactly the comments that
\* are '#', optional white space, then pylint:, flake8:, type: or noqa: in
\* any case; the '#' of every other comment is gone from the output.
C4_DefaultPattern ==
  (keep_pattern = "DEFAULT" /\ pc \in {"filtered", "untokenized", "done"}) =>
    /\ \A i \in DOMAIN tokens :
         IsComment(tokens[i]) =>
           (InSeq(tokens[i], result_tokens) <=> C4_IsDirective(tokens[i].string))
    /\ pc = "done" =>
         CountChar(cleaned_bytes, HASH)
           = CountInTokens(tokens, HASH,
                           LAMBDA t : ~IsComment(t) \/ C4_IsDirective(t.string))

C4_Witness ==
  /\ Returned
  /\ keep_pattern = "DEFAULT"
  /\ \E i, j \in DOMAIN tokens :
       /\ IsComment(tokens[i])
       /\ InSeq(tokens[i], result_tokens)
       /\ Contains(tokens[i].string, " ")
       /\ Contains(tokens[i].string, "Q")
       /\ IsComment(tokens[j])
       /\ ~InSeq(tokens[j], result_tokens)
       /\ IsInfix(CODING, tokens[j].string)
  /\ Contains(cleaned_bytes, "Q")
  /\ ~Contains(cleaned_bytes, "g")

\* a comment token alone on its line
IsCommentLine(i) ==
  /\ IsComment(tokens[i])
  /\ \A j \in DOMAIN tokens :
       tokens[j].srow = tokens[i].srow =>
         tokens[j].type \in {"COMMENT", "NL", "NEWLINE", "DEDENT", "ENDMARKER"}

\* C5: with remove_empty_lines=True no line of the output is empty or white
\* space only, and a line holding only a kept comment is in the output.
C5_NoBlankLine ==
  (pc = "done" /\ remove_empty_lines) =>
    /\ \A i \in DOMAIN ReadLines(cleaned_bytes, <<>>) :
         StripWs(ReadLines(cleaned_bytes, <<>>)[i]) # <<>>
    /\ \A i \in DOMAIN tokens :
         (IsCommentLine(i) /\ IsKept(tokens[i])) =>
           IsInfix(RStrip(tokens[i].string) \o <<LF>>, cleaned_bytes)

C5_Witness ==
  /\ pc = "done"
  /\ remove_empty_lines
  /\ cleaned_bytes # <<>>
  /\ \E i, j \in DOMAIN tokens :
       /\ IsCommentLine(i) /\ IsKept(tokens[i])
       /\ IsCommentLine(j) /\ ~IsKept(tokens[j])

\* C6 as stated: with remove_empty_lines=False the output has one line for
\* each physical line of the input.
C6_OneLinePerLine ==
  (pc = "done" /\ ~remove_empty_lines) =>
    CountChar(cleaned_bytes, LF) = Len(ReadLines(source_bytes, <<>>))

\* the input is one comment, with or without the newline that ends it
C7_IsOneComment(src) ==
  /\ src # <<>>
  /\ src[1] = HASH
  /\ \A i \in 1..(Len(src) - 1) : src[i] \notin {LF, "\r"}

\* the tokenizer accepts the comment: it is UTF-8 and names no unknown codec
C7_Accepted(src) ==
  /\ DecodeUtf8(src).ok
  /\ (CookieName(src) = <<>> \/ LookupCodec(CookieName(src)) # <<>>)

C7_Degenerate(InScope(_)) ==
  pc \in {"done", "raised"} =>
    /\ source_bytes = <<>> => (pc = "done" /\ cleaned_bytes = <<>>)
    /\ (/\ C7_IsOneComment(source_bytes)
        /\ ~KeepMatch(keep_pattern, RStripCRLF(source_bytes))
        /\ InScope(source_bytes)) =>
         /\ pc = "done"
         /\ cleaned_bytes = IF remove_empty_lines THEN <<>> ELSE <<LF>>

\* C7 as stated: empty input gives empty output; an input that is one
\* non-matching comment gives b"" (remove_empty_lines) or b"\n".
C7_OneComment == C7_Degenerate(LAMBDA src : TRUE)

\* C7 amended: the same, for a comment the tokenizer accepts.
C7_OneAcceptedComment == C7_Degenerate(C7_Accepted)

C7_Witness ==
  /\ pc = "done"
  /\ C7_IsOneComment(source_bytes)
  /\ CookieName(source_bytes) = LATIN
  /\ keep_pattern = "CUSTOM"
  /\ ~remove_empty_lines
  /\ cleaned_bytes = <<LF>>

\* C8 as stated: a non-empty result ends with exactly one newline.
C8_OneFinalNewline ==
  (pc = "done" /\ cleaned_bytes # <<>>) =>
    /\ cleaned_bytes[Len(cleaned_bytes)] = LF
    /\ Len(cleaned_bytes) >= 2 => cleaned_bytes[Len(cleaned_bytes) - 1] # LF

\* C8 amended: a non-empty result ends with a newline, and with
\* remove_empty_lines=True with exactly one.
C8_FinalNewline ==
  (pc = "done" /\ cleaned_bytes # <<>>) =>
    /\ cleaned_bytes[Len(cleaned_bytes)] = LF
    /\ remove_empty_lines =>
         (Len(cleaned_bytes) >= 2 /\ cleaned_bytes[Len(cleaned_bytes) - 1] # LF)

C8_Witness ==
  /\ pc = "done"
  /\ remove_empty_lines
  /\ cleaned_bytes # <<>>
  /\ LastN(source_bytes, 2) = <<LF, LF>>

RECURSIVE DropFinalNewlines(_)
DropFinalNewlines(s) ==
  IF s # <<>> /\ s[Len(s)] = LF THEN DropFinalNewlines(SubSeq(s, 1, Len(s) - 1)) ELSE s

RECURSIVE DropFinalSpaces(_)
DropFinalSpaces(s) ==
  IF s # <<>> /\ s[Len(s)] = " " THEN DropFinalSpaces(SubSeq(s, 1, Len(s) - 1)) ELSE s

\* the input with one newline at its end instead of however many it has
C9_NewlineNormalised(src) ==
  IF DropFinalNewlines(src) = <<>> THEN <<>> ELSE DropFinalNewlines(src) \o <<LF>>

\* the lines of the input between line feeds, each without the spaces at its
\* end, the ones left empty dropped, each of the others ended by a line feed
RECURSIVE C9_LineNormalised(_, _)
C9_LineNormalised(src, cur) ==
  LET done == IF DropFinalSpaces(cur) = <<>> THEN <<>> ELSE DropFinalSpaces(cur) \o <<LF>> IN
  IF src = <<>> THEN done
  ELSE IF Head(src) = LF THEN done \o C9_LineNormalised(Tail(src), <<>>)
  ELSE C9_LineNormalised(Tail(src), Append(cur, Head(src)))

C9_DefaultArgs == keep_pattern = "DEFAULT" /\ remove_empty_lines

\* C9 as stated: for an input without '#', under the default arguments, the
\* output is the input with only its final newlines normalised.
C9_OnlyFinalNewline ==
  (pc = "done" /\ C9_DefaultArgs /\ ~Contains(source_bytes, HASH)) =>
    cleaned_bytes = C9_NewlineNormalised(source_bytes)

\* C9 amended: for an input of printable ASCII, spaces and line feeds
\* without '#' and without backslash, the output is the input with the
\* spaces at the end of every line removed, blank lines deleted and one
\* newline at the end.
C9_LineNormalisedOnly ==
  (/\ pc = "done"
   /\ C9_DefaultArgs
   /\ \A i \in DOMAIN source_bytes :
        source_bytes[i] \notin {HASH, BSL, "\t", "\f", "\r", "<0B>", BAD80, "<C2>"}) =>
    cleaned_bytes = C9_LineNormalised(source_bytes, <<>>)

C9_Witness ==
  /\ pc = "done"
  /\ C9_DefaultArgs
  /\ ~Contains(source_bytes, HASH)
  /\ ~Contains(source_bytes, BSL)
  /\ IsInfix(<<" ", "x", " ", LF>>, source_bytes)
  /\ cleaned_bytes = <<" ", "x", LF>>

\* C10 as stated: an input that cannot be lexed (an unterminated literal,
\* bytes invalid under the source encoding, a malformed encoding
\* declaration) makes strip raise tokenize.TokenError and return nothing.
C10_TokenErrorOnly ==
  (pc = "raised" /\ exc \in {"TokenError", "UnicodeDecodeError", "SyntaxError"}) =>
    (raised = "TokenError" /\ cleaned_bytes = <<>>)

\* C11 as stated: a returned result is valid UTF-8, and reconstructed bytes
\* that are not valid UTF-8 never make strip fail: the normaliser
\* substitutes the invalid sequences and strip returns.
C11_SubstitutesInvalid ==
  /\ pc = "done" => DecodeUtf8(cleaned_bytes).ok
  /\ (intermediate_bytes # <<>> /\ ~DecodeUtf8(intermediate_bytes).ok) =>
       pc \notin {"except", "raised"}

\* the run of the CLI is over
Exited == cli_pc = "exited"

\* C12 as stated: the exit code is 2 exactly when the arguments cannot be
\* parsed; otherwise it is 0 exactly when every input file was processed
\* successfully, and 1 when at least one input file failed.
C12_ExitCode ==
  Exited =>
    /\ exit_code = 2 <=> ArgumentErrorIn(argv)
    /\ ~ArgumentErrorIn(argv) =>
         /\ exit_code = 0 <=> fail_count = 0
         /\ fail_count > 0 => exit_code = 1

\* C12 amended: 2 exactly when the arguments cannot be parsed; 0 exactly
\* when they parse, at least one input file was gathered and every one was
\* processed successfully; 1 exactly when they parse and a file failed or
\* set-up gathered nothing to process.
C12_ExitCodeWithSetup ==
  Exited =>
    /\ exit_code \in {0, 1, 2}
    /\ exit_code = 2 <=> ArgumentErrorIn(argv)
    /\ exit_code = 0 <=>
         /\ ~ArgumentErrorIn(argv)
         /\ input_files # <<>>
         /\ success_count = Len(input_files)
    /\ exit_code = 1 <=>
         /\ ~ArgumentErrorIn(argv)
         /\ (input_files = <<>> \/ fail_count > 0)

C12_Witness ==
  /\ Exited
  /\ exit_code = 1
  /\ fail_count = 0
  /\ argv.paths # <<>>
  /\ argv.output_dir = NonePath

IsBegin(e) == e.op = "begin"

Paths(es) == [i \in DOMAIN es |-> es[i].path]

\* C13: the files are begun once each in list order whatever happens to
\* the ones before, and when the loop is over success_count + fail_count is
\* the number of input files.
C13_EveryFileAttempted ==
  LET begun == Paths(SelectSeq(events, IsBegin)) IN
  /\ Len(begun) <= Len(input_files)
  /\ begun = SubSeq(input_files, 1, Len(begun))
  /\ cli_pc = "loop" =>
       /\ Len(begun) = file_idx - 1
       /\ success_count + fail_count = file_idx - 1
  /\ (Exited /\ input_files # <<>>) =>
       /\ begun = input_files
       /\ success_count + fail_count = Len(input_files)

C13_Witness ==
  /\ Exited
  /\ Len(input_files) = 2
  /\ fail_count = 1
  /\ success_count = 1
  /\ job.file_path = input_files[2]
  /\ job.exc = ""

\* the operations on the file in progress, after its "begin"
RECURSIVE SinceBegin(_)
SinceBegin(es) ==
  IF es = <<>> \/ es[Len(es)].op = "begin" THEN <<>>
  ELSE Append(SinceBegin(SubSeq(es, 1, Len(es) - 1)), es[Len(es)].op)

\* C14: process reads, strips and writes in this order, each at most once;
\* the writer is called only after the read and the strip succeeded, a
\* failing read or strip changes no file and no output, and the exception
\* that leaves process is the one the failing step raised.
C14_ReadStripWrite ==
  /\ [](/\ SinceBegin(events) \in
             {<<>>, <<"read">>, <<"read", "strip">>, <<"read", "strip", "write">>,
              <<"read", "strip", "write", "unlink">>}
        /\ cli_pc \in {"write", "written"} =>
             /\ ReadFileBytes(disk, no_read, job.file_path).exc = "" \/ cli_pc = "written"
             /\ strip(job.source_bytes, "DEFAULT", TRUE) =
                  [raised |-> "", bytes |-> job.cleaned_bytes]
        /\ (cli_pc = "except" /\ SinceBegin(events) = <<"read">>) =>
             job.exc = ReadFileBytes(disk, no_read, job.file_path).exc
        /\ (cli_pc = "except" /\ SinceBegin(events) = <<"read", "strip">>) =>
             job.exc = strip(job.source_bytes, "DEFAULT", TRUE).raised)
  /\ [][(cli_pc \in {"read", "strip"} /\ cli_pc' = "except") =>
          (disk' = disk /\ stdout' = stdout)]_vars

C14_Witness ==
  /\ cli_pc = "except"
  /\ SinceBegin(events) = <<"read", "strip">>
  /\ job.exc = "TokenError"
  /\ job.output_dest # NonePath

\* C15: under --in-place --compress a file leaves the disk only as the
\* original of a file whose process() returned normally, when the compressed
\* copy exists at another path and holds the compressed cleaned bytes; a
\* step that ends a failed file removes nothing.
C15_DeletedAfterCompressed ==
  /\ [][\A p \in DOMAIN disk.files : p \notin DOMAIN disk'.files =>
          /\ argv.in_place /\ argv.compress
          /\ cli_pc = "written"
          /\ p = job.file_path
          /\ job.exc = ""
          /\ job.effective_log_path # p
          /\ IsFile(disk, job.effective_log_path)
          /\ disk.files[job.effective_log_path]
               = Compressed(compression_algo, job.cleaned_bytes)
          /\ SinceBegin(events) = <<"read", "strip", "write">>]_vars
  /\ [][(cli_pc \in {"false", "except"}) => (DOMAIN disk'.files = DOMAIN disk.files)]_vars
  /\ [](\A p \in DOMAIN disk.files : ~Unlinks(disk, no_resolve, p, p))

C15_Witness ==
  /\ Exited /\ argv.in_place /\ argv.compress
  /\ success_count = 1 /\ fail_count = 1
  /\ \E i \in DOMAIN events : events[i].op = "unlink" /\ ~IsFile(disk, events[i].path)
  /\ \E i \in DOMAIN input_files : IsFile(disk, input_files[i])

\* a file has been taken from the list and its destination computed
InFile == cli_pc \in {"false", "except", "read", "strip", "write", "written"}

\* C16 as stated: with --in-place the destination is the file's own path,
\* otherwise with --output-dir a path under that directory, otherwise None.
C16_Precedence ==
  InFile =>
    IF argv.in_place THEN job.output_dest = job.file_path
    ELSE IF argv.output_dir # NonePath
    THEN /\ IsPrefixPath(argv.output_dir, job.output_dest)
         /\ job.output_dest # argv.output_dir
    ELSE job.output_dest = NonePath

\* C16 amended: for a file whose path resolves, with --in-place the
\* destination is the file's own path, with the algorithm's extension appended
\* to its name under --compress, and --output-dir is ignored; otherwise with
\* --output-dir it is a path under that directory ending in the file's name;
\* otherwise None.  A file whose path does not resolve has destination None.
C16_PrecedenceWithExtension ==
  InFile =>
    LET f == job.file_path
        ext == AlgoEntry(COMPRESSION_ALGORITHMS_DATA, compression_algo).extension IN
    IF f \in no_resolve THEN job.output_dest = NonePath
    ELSE IF argv.in_place
    THEN job.output_dest = IF argv.compress
                           THEN SubSeq(f, 1, Len(f) - 1) \o <<f[Len(f)] \o ext>>
                           ELSE f
    ELSE IF argv.output_dir # NonePath
    THEN /\ IsPrefixPath(argv.output_dir, job.output_dest)
         /\ job.output_dest # argv.output_dir
         /\ job.output_dest[Len(job.output_dest)] = f[Len(f)]
    ELSE job.output_dest = NonePath

C16_Witness ==
  /\ cli_pc = "written"
  /\ argv.in_place /\ argv.compress /\ argv.output_dir # NonePath
  /\ job.output_dest # job.file_path
  /\ IsFile(disk, job.output_dest)

\* the files a call of gather_python_files is asked for: the regular files
\* with suffix ".py" that are a resolvable target or lie under a resolvable
\* directory target
AskedFor ==
  {q \in DOMAIN disk.files :
     /\ PathSuffix(q) = PY
     /\ \E i \in DOMAIN gather_paths :
          \E t \in TargetsToCheck(disk, gather_paths[i]) :
            /\ t \notin no_resolve
            /\ q = t \/ (IsDir(disk, t) /\ IsPrefixPath(t, q))}

\* C17 as stated: the list returned is strictly increasing (sorted, without
\* duplicates), and its elements are exactly the existing regular files with
\* suffix ".py" reachable from the inputs that resolve.
C17_SortedPythonFiles ==
  gather_pc = "returned" =>
    /\ \A i, j \in DOMAIN sorted_files : i < j => PathLess(sorted_files[i], sorted_files[j])
    /\ \A i \in DOMAIN sorted_files :
         IsFile(disk, sorted_files[i]) /\ PathSuffix(sorted_files[i]) = PY
    /\ {sorted_files[i] : i \in DOMAIN sorted_files} = AskedFor

\* the name C18 gives the compressed file of target t for the extension ext
SuffixedOnce(t, ext) ==
  IF EndsWith(t[Len(t)], ext) THEN t
  ELSE SubSeq(t, 1, Len(t) - 1) \o <<t[Len(t)] \o ext>>

\* C18: a write of a compressing FileWriter to a target path changes no
\* file other than the target path with the extension appended once (the
\* target itself when it already ends with the extension); when the write
\* returns that file exists and holds the compressed data, when it raises no
\* file has been created; the un-suffixed path is left as it was.
C18_OneCompressedFile ==
  [][(writer_pc = "ready" /\ writer.compress /\ write_args.target_path # NonePath) =>
       LET t == write_args.target_path
           ext == writer.compression_settings.extension
           expected == SuffixedOnce(t, ext) IN
       /\ \A q \in (DOMAIN disk.files \cup DOMAIN disk'.files) \ {expected} :
            /\ q \in DOMAIN disk.files /\ q \in DOMAIN disk'.files
            /\ disk'.files[q] = disk.files[q]
       /\ writer_pc' = "written" =>
            /\ IsFile(disk', expected)
            /\ disk'.files[expected] = Compressed(writer.compression_settings.name, write_args.data)
            /\ EndsWith(expected[Len(expected)], ext)
            /\ ~EndsWith(expected[Len(expected)], ext \o ext) \/ expected = t
       /\ writer_pc' = "raised" => disk'.files = disk.files
       /\ stdout' = stdout]_vars

C18_Witness ==
  /\ writer_pc = "written" /\ writer.compress
  /\ write_args.target_path = FileA
  /\ IsFile(disk, FileAGz) /\ ~IsFile(disk, FileA)
  /\ disk.files[FileAGz] = Compressed("gzip", write_args.data)

\* the opener of algorithm a is available in the table of the call
OpenerOf(a) == \E i \in DOMAIN algorithms : algorithms[i].name = a /\ algorithms[i].opener

AnyOpener == \E i \in DOMAIN algorithms : algorithms[i].opener

\* C19: the value returned is the preferred default when its opener is
\* available, otherwise the first entry of the table with an opener,
\* otherwise the preferred default; it is available exactly when some
\* algorithm of the table is.
C19_DefaultCompression ==
  config_pc = "returned" =>
    /\ OpenerOf(initial_default) => default_algo = initial_default
    /\ (~OpenerOf(initial_default) /\ AnyOpener) =>
         \E i \in DOMAIN algorithms :
           /\ algorithms[i].name = default_algo
           /\ algorithms[i].opener
           /\ \A j \in 1..(i - 1) : ~algorithms[j].opener
    /\ ~AnyOpener => default_algo = initial_default
    /\ is_compression_available(default_algo, algorithms) <=> AnyOpener

C19_Witness ==
  /\ config_pc = "returned"
  /\ Len(algorithms) = 3
  /\ algorithms[1].name = "gzip" /\ ~algorithms[1].opener
  /\ algorithms[2].opener /\ algorithms[3].opener
  /\ initial_default = "gzip"
  /\ default_algo = "bz2"

\* what call t returns or raises when it runs alone
Alone(t) ==
  strip(frames[t].source_bytes, frames[t].keep_pattern, frames[t].remove_empty_lines)

RECURSIVE SplitAtLF(_, _)
SplitAtLF(s, cur) ==
  IF s = <<>> THEN (IF cur = <<>> THEN <<>> ELSE <<cur>>)
  ELSE IF Head(s) = LF THEN <<cur>> \o SplitAtLF(Tail(s), <<>>)
  ELSE SplitAtLF(Tail(s), Append(cur, Head(s)))

\* C21 as stated: the result is the reconstructed text cut into lines at its
\* line feeds only, each line trimmed (and dropped when blank, under
\* remove_empty_lines) and joined again; no other character ends a line.
C21_SplitOnlyAtLF ==
  (pc = "done" /\ source_bytes # <<>>) =>
    cleaned_bytes =
      Encode(JoinLines(ProcessLines(SplitAtLF(Decode(intermediate_bytes, UTF8).text, <<>>),
                                    remove_empty_lines)), UTF8)

\* C22: no line of a result ends with a white-space character, whatever
\* remove_empty_lines is.
C22_NoTrailingWhitespace ==
  pc = "done" =>
    LET lines == SplitAtLF(cleaned_bytes, <<>>) IN
    \A i \in DOMAIN lines :
      lines[i] = <<>> \/ ~IsStripChar(lines[i][Len(lines[i])])

\* a comment at the end of a code line has been removed and the space in
\* front of it, still there in the reconstructed text, is not in the result
C22_Witness ==
  /\ pc = "done"
  /\ source_bytes = <<"x", " ", HASH, LF>>
  /\ IsInfix(<<" ", LF>>, intermediate_bytes)
  /\ cleaned_bytes = <<"x", LF>>

\* a token survives the filter when it is no comment or is a kept comment
Survives(t) == t.type # "COMMENT" \/ IsKept(t)

\* C23: the filtered token sequence is the lexer's sequence with exactly the
\* comment tokens that are not kept deleted: every other token is present,
\* unmodified, in its original order, and no token is added.
C23_ExactlyCommentsDeleted ==
  pc \in {"filtered", "untokenized", "done"} =>
    result_tokens = SelectSeq(tokens, Survives)

C23_Witness ==
  /\ pc = "filtered"
  /\ \E i \in DOMAIN tokens : tokens[i].type = "COMMENT" /\ ~IsKept(tokens[i])
  /\ \E i \in DOMAIN tokens : tokens[i].type = "COMMENT" /\ IsKept(tokens[i])
  /\ \E i \in DOMAIN result_tokens : result_tokens[i].type = "NAME"
  /\ \E i \in DOMAIN result_tokens : result_tokens[i].type = "NL"
  /\ Len(result_tokens) < Len(tokens)

\* the tokens of the program proper, and the NEWLINE tokens that end its
\* logical lines
IsCode(t) == t.type \in {"NAME", "NUMBER", "OP", "STRING", "NEWLINE"}

CodeOf(toks) ==
  LET s == SelectSeq(toks, IsCode) IN
  [i \in DOMAIN s |-> IF s[i].type \in {"STRING", "NEWLINE"} THEN <<s[i].type>>
                      ELSE <<s[i].type, s[i].string>>]

\* the sequence without the NEWLINE entries at its end
RECURSIVE DropLastNewlines(_)
DropLastNewlines(c) ==
  IF c # <<>> /\ c[Len(c)] = <<"NEWLINE">> THEN DropLastNewlines(SubSeq(c, 1, Len(c) - 1))
  ELSE c

\* a NEWLINE token with code tokens on both sides: two logical lines of code
TwoCodeLines(toks) ==
  LET c == CodeOf(toks) IN
  \E i, j, k \in DOMAIN c :
    /\ i < j /\ j < k
    /\ c[i] # <<"NEWLINE">> /\ c[j] = <<"NEWLINE">> /\ c[k] # <<"NEWLINE">>

HasType(toks, type) == \E i \in DOMAIN toks : toks[i].type = type

\* C24 as stated: removing a comment never merges lines or fuses tokens. When
\* the lexer accepts a source that has a comment and code on two logical
\* lines, the result is lexed into the same code tokens in the same order with
\* the same NEWLINE tokens between them, for both values of
\* remove_empty_lines. Violated: with remove_empty_lines the line left empty
\* by a comment after a backslash continuation is dropped, and the
\* continuation joins the two logical lines.
C24_LinesNotMerged ==
  (/\ pc = "done" /\ calls = 1
   /\ HasType(tokens, "COMMENT") /\ ~HasType(tokens, "ERRORTOKEN")
   /\ TwoCodeLines(tokens)) =>
    LET out == Then(cleaned_bytes, Tokenize) IN
    /\ out.exc = ""
    /\ DropLastNewlines(CodeOf(out.toks)) = DropLastNewlines(CodeOf(tokens))

\* C25 as stated: when the reconstructed bytes cannot be decoded as UTF-8 in
\* the post-processing step, strip raises UnicodeDecodeError, which differs in
\* type from the TokenError of a tokenisation failure. Violated: the outer
\* except clause catches the UnicodeDecodeError and raises TokenError.
C25_DecodeErrorByType ==
  (/\ pc = "raised"
   /\ tokens # <<>>
   /\ intermediate_bytes # <<>>
   /\ ~DecodeUtf8(intermediate_bytes).ok) =>
    raised = "UnicodeDecodeError"

\* C29 as stated: the text of every string-literal token, the interior lines
\* of a triple-quoted literal included, appears in the result byte for byte,
\* for both values of remove_empty_lines. Violated: the line normaliser
\* strips and drops the lines of a literal like any other line.
C29_LiteralsVerbatim ==
  (pc = "done" /\ calls = 1) =>
    \A i \in DOMAIN tokens :
      tokens[i].type = "STRING" => IsInfix(Encode(tokens[i].string, UTF8), cleaned_bytes)

\* set-up fails for one of the reasons of the claim
SetupFails ==
  \/ ~ValidateCompression(argv)
  \/ gather_python_files(disk, no_resolve, argv.paths) = <<>>

InOutputDirMode ==
  /\ cli_pc \in {"read", "strip", "write", "written", "except"}
  /\ output_dir # NonePath
  /\ ~argv.in_place
  /\ job.file_path \notin no_resolve

\* C27: in output-directory mode the destination of a file is the output
\* directory joined with the file's path relative to the common base path,
\* so the directory structure is mirrored; a file that is not below the base
\* path goes directly under the output directory under its name only.
C27_MirroredDestination ==
  InOutputDirMode =>
    /\ IsPrefixPath(base_common_path, job.file_path) =>
          /\ job.output_dest = output_dir \o RelativeTo(job.file_path, base_common_path)
          /\ RelativeTo(job.output_dest, output_dir)
               = RelativeTo(job.file_path, base_common_path)
    /\ ~IsPrefixPath(base_common_path, job.file_path) =>
          job.output_dest = Append(output_dir, PathName(job.file_path))
    /\ (\A i \in DOMAIN input_files : input_files[i] \notin no_resolve) =>
          /\ \A i \in DOMAIN input_files : IsPrefixPath(base_common_path, input_files[i])
          /\ IsDir(disk, base_common_path)

\* p/s/a.py has been written to o/s/a.py and p/a.py to o/a.py
C27_Witness ==
  /\ cli_pc = "exited"
  /\ argv.paths = <<DirP>> /\ output_dir = DirO /\ base_common_path = DirP
  /\ input_files = <<FileA, FileSA>>
  /\ IsFile(disk, Append(DirO, PathName(FileA)))
  /\ IsFile(disk, DirO \o RelativeTo(FileSA, DirP))
  /\ ~argv.compress

\* no destination was determined for the current file although a file
\* output mode is selected
NoDestinationInFileMode ==
  /\ job.file_path # NonePath
  /\ job.output_dest = NonePath
  /\ job.effective_log_path = NonePath
  /\ (argv.in_place \/ output_dir # NonePath)

\* C28 as stated: when _get_output_destination returns (None, None) while
\* --in-place or --output-dir is selected the file is skipped: it is never
\* read, stripped or written, nothing goes to standard output for it, and it
\* is not counted as a success. Violated: with --in-place the test before
\* the warning is false, and the file is processed to standard output.
C28_SkippedWithoutDestination ==
  NoDestinationInFileMode =>
    /\ cli_pc \notin {"read", "strip", "write", "written"}
    /\ stdout = <<>>
    /\ success_count < file_idx

\* C30 as stated: without --in-place no step of a run overwrites or deletes
\* an input file, whatever the output directory is. Violated: an output
\* directory that is the common base path of the inputs makes every
\* destination the input file itself.
C30_InputsKeptWithoutInPlace ==
  [][(~argv.in_place) =>
       (\A i \in DOMAIN input_files :
          IsFile(disk, input_files[i]) =>
            /\ IsFile(disk', input_files[i])
            /\ disk'.files[input_files[i]] = disk.files[input_files[i]])]_vars

====
